---------------------------- MODULE Spec2Model ----------------------------
(***************************************************************************)
(* Model of the prisma-extension-cache-manager query interceptor           *)
(* ($allOperations with its key resolver, uncache resolver, single-flight  *)
(* registry and distributed lock), as found in src/unnamed/part_000 with   *)
(* the operation lists of src/src/types.ts, and of the interceptors of     *)
(* src/unnamed/part_001 (second file), src/unnamed/part_003 and            *)
(* src/src/index.ts, which have neither registry nor lock.                 *)
(*                                                                         *)
(* One action is one step of the JavaScript event loop: the settling of    *)
(* the awaited external call (cache store, lock connection, query          *)
(* executor) together with the synchronous continuation that runs up to    *)
(* the next await.                                                         *)
(***************************************************************************)
EXTENDS Integers, Sequences, FiniteSets, TLC

(* ------------------------------ bounds -------------------------------- *)
\* number of intercepted calls in one behaviour
MaxCalls == 3
\* number of distinct versions the database row goes through
MaxDb == 2
\* number of cache polls a lock waiter makes before its deadline must have passed
MaxPolls == 1

Calls == 1..MaxCalls
Procs == {1, 2}

(* --------------------------- JavaScript values ------------------------ *)
Undefined == [t |-> "undefined"]
Null == [t |-> "null"]
Bool(b) == [t |-> "boolean", v |-> b]
Num(n) == [t |-> "number", v |-> n]
Str(s) == [t |-> "string", v |-> s]
Fn(f) == [t |-> "function", v |-> f]
Arr(s) == [t |-> "array", v |-> s]
\* an object literal with the fields key, namespace and ttl (absent = Undefined)
Obj(k, n, l) == [t |-> "object", key |-> k, namespace |-> n, ttl |-> l]
\* a query result: the row as of database version n
Row(n) == [t |-> "row", v |-> n]

typeof(x) ==
  CASE x.t = "undefined" -> "undefined"
    [] x.t = "boolean" -> "boolean"
    [] x.t = "number" -> "number"
    [] x.t = "string" -> "string"
    [] x.t = "function" -> "function"
    [] OTHER -> "object"

\* JavaScript truthiness of a value
Truthy(x) ==
  CASE x.t = "undefined" -> FALSE
    [] x.t = "null" -> FALSE
    [] x.t = "boolean" -> x.v
    [] x.t = "number" -> x.v # 0
    [] x.t = "string" -> x.v # ""
    [] OTHER -> TRUE

\* a ?? b
Coalesce(a, b) == IF a.t \in {"undefined", "null"} THEN b ELSE a

\* the string a template literal `${x}` produces for a value that is no array
ToStr1(x) ==
  CASE x.t = "string" -> x.v
    [] x.t = "number" -> ToString(x.v)
    [] x.t = "undefined" -> "undefined"
    [] x.t = "null" -> "null"
    [] x.t = "boolean" -> IF x.v THEN "true" ELSE "false"
    [] OTHER -> "[object Object]"

\* Array.prototype.join(",") of an array of such values: null and undefined
\* elements come out empty
RECURSIVE Join(_)
Join(s) ==
  IF Len(s) = 0 THEN ""
  ELSE LET h == IF s[1].t \in {"undefined", "null"} THEN "" ELSE ToStr1(s[1])
       IN IF Len(s) = 1 THEN h ELSE h \o "," \o Join(Tail(s))

\* the string a template literal `${x}` produces, also what a store that takes
\* string keys files a key under
ToStr(x) == IF x.t = "array" THEN Join(x.v) ELSE ToStr1(x)

(* ------------------------------ helpers ------------------------------- *)
\* object-code's hash of an object: a number that depends on the content of
\* every field the object has (the library's own mixing is not part of this
\* code); a directive left among the fields counts by its type and value
hash(a) ==
  LET code(x) ==
        CASE x.t = "undefined" -> 1
          [] x.t = "boolean" -> IF x.v THEN 3 ELSE 2
          [] x.t = "number" -> 5 + x.v
          [] x.t = "string" -> 7 + Len(x.v)
          [] x.t = "array" -> 11 + Len(x.v)
          [] OTHER -> 13
      field(f) == IF f \in DOMAIN a THEN code(a[f]) ELSE 0
  IN (a.where * 40503 + 26544 + 131 * field("cache") + 17 * field("uncache")) % 65521

composedKey(m, a) == m \o "@" \o ToString(hash(a))

\* ns: the key as a JavaScript value (a non-string key stays what it is)
ns(k, n) == IF Truthy(n) THEN Str(ToStr(n) \o ":" \o ToStr(k)) ELSE k

REQUIRED_ARGS_OPERATIONS ==
  {"delete", "findUnique", "findUniqueOrThrow", "groupBy", "update", "upsert"}
OPTIONAL_ARGS_OPERATIONS ==
  {"findMany", "findFirst", "findFirstOrThrow", "count"}
CACHE_OPERATIONS == REQUIRED_ARGS_OPERATIONS \cup OPTIONAL_ARGS_OPERATIONS

WRITE_OPERATIONS ==
  {"create", "createMany", "updateMany", "upsert", "update", "delete"}
\* a set of cacheable operations that has the write operations in it
CACHE_OPERATION_SET_WithWrites == CACHE_OPERATIONS \cup WRITE_OPERATIONS
CACHE_OPERATION_SET == CACHE_OPERATIONS
isWrite(op) == op \in WRITE_OPERATIONS


(* ------------------- functions the caller passes in ------------------- *)
\* The caller-supplied functions (cache key factories and uncache functions),
\* by name, applied to a query result.
Apply(f, res) ==
  CASE f = "userKey" -> Str("user-" \o ToString(res.v))
    [] f = "countKey" -> Str("user_count")
    [] f = "keyList" -> Arr(<<Str("user_count"), Str("users")>>)
    [] f = "mixedList" ->
         Arr(<<Str("users"), Obj(Str("user_count"), Str("n"), Undefined), Str("")>>)
    [] OTHER -> Undefined

(* --------------------------- uncache resolver ------------------------- *)
isString(x) == x.t = "string"

\* entry?.key
EntryKey(e) == IF e.t = "object" THEN e.key ELSE Undefined
EntryNamespace(e) == IF e.t = "object" THEN e.namespace ELSE Undefined

UncacheEntry(e) ==
  IF isString(e) THEN e
  ELSE IF Truthy(EntryKey(e)) THEN ns(EntryKey(e), EntryNamespace(e))
  ELSE Undefined

KeepUncacheKey(e) == isString(e) /\ Len(e.v) > 0

\* toUncache: the list of store keys (strings) to delete
toUncache(opt, res) ==
  IF ~Truthy(opt) THEN <<>>
  ELSE LET values == IF typeof(opt) = "function" THEN Apply(opt.v, res) ELSE opt
           list == IF values.t = "array" THEN values.v ELSE <<values>>
           mapped == [i \in 1..Len(list) |-> UncacheEntry(list[i])]
           kept == SelectSeq(mapped, KeepUncacheKey)
       IN [i \in 1..Len(kept) |-> kept[i].v]

(* ----------------------------- key resolver --------------------------- *)
\* an isCacheHit that takes every value for a miss
isCacheHitNever(value) == FALSE
isCacheHit(value) == value # Undefined

hasResultKeyFactory(cOpt) ==
  /\ Truthy(cOpt)
  /\ typeof(cOpt) = "object"
  /\ cOpt.t # "array"
  /\ typeof(EntryKey(cOpt)) = "function"

\* a resolver that takes every falsy key and ttl for an absent one (|| for ??)
resolveStaticCacheConfigOr(model, cOpt, queryArgs) ==
  IF typeof(cOpt) = "string" THEN [key |-> cOpt, ttl |-> Undefined]
  ELSE IF typeof(cOpt) = "number"
    THEN [key |-> Str(composedKey(model, queryArgs)), ttl |-> cOpt]
  ELSE IF Truthy(cOpt) /\ cOpt.t = "object"
    THEN [key |-> ns(IF Truthy(cOpt.key) THEN cOpt.key
                     ELSE Str(composedKey(model, queryArgs)),
                     cOpt.namespace),
          ttl |-> IF Truthy(cOpt.ttl) THEN cOpt.ttl ELSE Undefined]
  ELSE [key |-> Str(composedKey(model, queryArgs)), ttl |-> Undefined]

resolveStaticCacheConfig(model, cOpt, queryArgs) ==
  IF typeof(cOpt) = "string" THEN [key |-> cOpt, ttl |-> Undefined]
  ELSE IF typeof(cOpt) = "number"
    THEN [key |-> Str(composedKey(model, queryArgs)), ttl |-> cOpt]
  ELSE IF Truthy(cOpt) /\ cOpt.t = "object"
    THEN [key |-> ns(Coalesce(cOpt.key, Str(composedKey(model, queryArgs))),
                     cOpt.namespace),
          ttl |-> Coalesce(cOpt.ttl, Undefined)]
  ELSE [key |-> Str(composedKey(model, queryArgs)), ttl |-> Undefined]

\* query arguments that keep the cache and uncache fields
queryArgsAll(args) == args

\* const { cache: cOpt, uncache, ...queryArgs } = operationArgs
queryArgsOf(args) == [where |-> args.where]

(* ------------- the variant without lock and single flight ------------- *)
\* part_001, second file: no single flight, no lock, cache.mdel, cache.set
\* awaited without a catch
isWrite_p1(op) == op \in {"create", "createMany", "updateMany", "upsert", "update"}

\* a list of keys as the store will get it, or the TypeError thrown on the way
Keys(ks) == [thrown |-> FALSE, keys |-> ks]
KeysThrown == [thrown |-> TRUE, keys |-> <<>>]

\* o => typeof o === "string" ? o : ns(o.key, o.namespace)
UncacheEntry_p1(o) == IF isString(o) THEN o ELSE ns(EntryKey(o), EntryNamespace(o))

\* reading a property of null or undefined throws
NoProperties(o) == o.t \in {"undefined", "null"}

toUncache_p1(opt, res) ==
  IF ~Truthy(opt) THEN Keys(<<>>)
  ELSE IF typeof(opt) = "function"
    THEN LET v == Apply(opt.v, res)
         IN Keys(IF v.t = "array" THEN v.v ELSE <<v>>)
  ELSE IF typeof(opt) = "string" THEN Keys(<<opt>>)
  ELSE IF opt.t # "array" THEN KeysThrown
  ELSE IF \E i \in 1..Len(opt.v) : NoProperties(opt.v[i]) THEN KeysThrown
  ELSE Keys([i \in 1..Len(opt.v) |-> UncacheEntry_p1(opt.v[i])])

\* the branches of $allOperations that fix key and ttl before the query
staticConfig_p1(model, cOpt, queryArgs) ==
  IF typeof(cOpt) # "object" \/ cOpt.t = "array"
    THEN [key |-> IF typeof(cOpt) = "string" THEN cOpt
                  ELSE Str(composedKey(model, queryArgs)),
          ttl |-> IF typeof(cOpt) = "number" THEN cOpt ELSE Undefined]
  ELSE [key |-> ns(Coalesce(cOpt.key, Str(composedKey(model, queryArgs))),
                   cOpt.namespace),
        ttl |-> Coalesce(cOpt.ttl, Undefined)]

hasKeyFunction_p1(cOpt) ==
  typeof(cOpt) = "object" /\ cOpt.t = "object" /\ typeof(cOpt.key) = "function"

\* hit !== undefined && hit !== null
isHit_p1(hit) == hit # Undefined /\ hit # Null

(* ------------------ the variant with the finish helper ---------------- *)
\* part_003: as above, but the deletion is not awaited and cache.set is
\* wrapped in try / catch
hashKey(m, a) == m \o "@" \o ToString(hash(a))
WRITE_OPS == {"create", "createMany", "updateMany", "upsert", "update"}

\* Array(x): a number makes an array of that many holes, anything else a
\* one-element array
ArrayOf(x) ==
  IF x.t = "number" THEN [i \in 1..x.v |-> Undefined] ELSE <<x>>

toUncache_p3(opt, res) ==
  IF ~Truthy(opt) THEN Keys(<<>>)
  ELSE IF typeof(opt) = "function" THEN Keys(ArrayOf(Apply(opt.v, res)))
  ELSE IF typeof(opt) = "string" THEN Keys(<<opt>>)
  ELSE IF opt.t # "array" THEN KeysThrown
  ELSE IF \E i \in 1..Len(opt.v) : NoProperties(opt.v[i]) THEN KeysThrown
  ELSE Keys([i \in 1..Len(opt.v) |-> UncacheEntry_p1(opt.v[i])])

staticConfig_p3(model, cOpt, queryArgs) ==
  IF typeof(cOpt) # "object" \/ cOpt.t = "array"
    THEN [key |-> IF typeof(cOpt) = "string" THEN cOpt
                  ELSE Str(hashKey(model, queryArgs)),
          ttl |-> IF typeof(cOpt) = "number" THEN cOpt ELSE Undefined]
  ELSE [key |-> ns(Coalesce(cOpt.key, Str(hashKey(model, queryArgs))),
                   cOpt.namespace),
        ttl |-> cOpt.ttl]

\* hit != null
isHit_p3(hit) == hit # Undefined /\ hit # Null

(* ------------------------ the msgpack variant ------------------------- *)
\* src/index.ts: no single flight, no lock; the values are stored msgpack
\* encoded through the store's redis client
md5(a) == (a.where * 31 + 7) % 9973
generateComposedKey(model, queryArgs) == model \o "@" \o ToString(md5(queryArgs))

createKey(key, namespace) ==
  IF Truthy(namespace) THEN Str(ToStr(namespace) \o ":" \o ToStr(key)) ELSE key

\* encode / decode with the codec: a row becomes a buffer and comes back as
\* the row, undefined and null both come back as null
serialize(data) ==
  [t |-> "buffer", v |-> IF data.t = "row" THEN <<1, data.v>> ELSE <<0>>]
deserialize(buffer) == IF buffer.v[1] = 1 THEN Row(buffer.v[2]) ELSE Null

isWriteOperation(op) ==
  op \in {"create", "createMany", "updateMany", "upsert", "update"}

shouldUseCache(cacheOption) ==
  /\ cacheOption # Undefined
  /\ typeof(cacheOption) \in {"boolean", "object", "number", "string"}

shouldUseUncache(uncacheOption) ==
  /\ uncacheOption # Undefined
  /\ \/ typeof(uncacheOption) = "function"
     \/ typeof(uncacheOption) = "string"
     \/ uncacheOption.t = "array"

\* processUncache, its keysToDelete
keysToDelete(uncacheOption, result) ==
  IF typeof(uncacheOption) = "function"
    THEN LET keys == Apply(uncacheOption.v, result)
         IN Keys(IF keys.t = "array" THEN keys.v ELSE <<keys>>)
  ELSE IF typeof(uncacheOption) = "string" THEN Keys(<<uncacheOption>>)
  ELSE IF uncacheOption.t = "array"
    THEN IF Len(uncacheOption.v) = 0 THEN Keys(<<>>)
         ELSE IF typeof(uncacheOption.v[1]) = "string" THEN Keys(uncacheOption.v)
         ELSE IF typeof(uncacheOption.v[1]) = "object"
           THEN IF \E i \in 1..Len(uncacheOption.v) : NoProperties(uncacheOption.v[i])
                  THEN KeysThrown
                  ELSE Keys([i \in 1..Len(uncacheOption.v) |->
                               createKey(EntryKey(uncacheOption.v[i]),
                                         EntryNamespace(uncacheOption.v[i]))])
         ELSE Keys(<<>>)
  ELSE Keys(<<>>)

staticConfig_ix(model, cacheOption, queryArgs) ==
  IF typeof(cacheOption) \in {"boolean", "number", "string"}
    THEN [key |-> IF typeof(cacheOption) = "string" THEN cacheOption
                  ELSE Str(generateComposedKey(model, queryArgs)),
          ttl |-> IF typeof(cacheOption) = "number" THEN cacheOption ELSE Undefined]
  ELSE LET k == createKey(EntryKey(cacheOption), EntryNamespace(cacheOption))
       IN [key |-> IF Truthy(k) THEN k
                   ELSE Str(generateComposedKey(model, queryArgs)),
           ttl |-> IF cacheOption.t = "object" THEN cacheOption.ttl ELSE Undefined]

\* the ttl the entry is written with: the default when there is none
effectiveTtl(ttl, defaultTTL) == IF ttl = Undefined THEN defaultTTL ELSE ttl

(* ----------------------------- lock options --------------------------- *)
DEFAULT_LOCK_OPTIONS ==
  [enabled |-> TRUE, prefix |-> "prisma-cache-lock", ttl |-> 5000,
   waitTimeout |-> 2000, retryDelay |-> 40, retryJitter |-> 20]

\* A number that is no integer: n + 1/2 ("half"), Infinity with the sign of n
\* ("infinite") or NaN ("nan"). Num(n) is the integer n.
Real(kind, n) == [t |-> "number", kind |-> kind, v |-> n]

\* Number.isFinite(value) && value > 0
PositiveFinite(x) ==
  LET kind == IF "kind" \in DOMAIN x THEN x.kind ELSE "integer"
  IN CASE kind = "integer" -> x.v > 0
       [] kind = "half" -> x.v >= 0
       [] OTHER -> FALSE

\* Math.floor of a finite number
floor(x) == x.v

toPositive(value, fallback) ==
  IF typeof(value) = "number" /\ PositiveFinite(value)
    THEN floor(value) ELSE fallback

\* String.prototype.trim on the prefixes used here: those of spaces only
\* come out empty
trim(s) == IF s \in {"", " ", "  "} THEN "" ELSE s

\* the lock configuration as an object with every field present
\* (an absent field is Undefined)
LockCfg(e, p, t, w, d, j) ==
  [t |-> "object", enabled |-> e, prefix |-> p, ttl |-> t, waitTimeout |-> w,
   retryDelay |-> d, retryJitter |-> j]

\* a resolver that ignores the configuration
resolveLockOptionsDefault(lock) == DEFAULT_LOCK_OPTIONS

resolveLockOptions(lock) ==
  IF lock = Bool(FALSE) THEN [DEFAULT_LOCK_OPTIONS EXCEPT !.enabled = FALSE]
  ELSE IF ~Truthy(lock) THEN DEFAULT_LOCK_OPTIONS
  ELSE [enabled |-> IF lock.enabled.t \in {"undefined", "null"}
                      THEN DEFAULT_LOCK_OPTIONS.enabled
                      ELSE Truthy(lock.enabled),
        prefix |-> IF isString(lock.prefix) /\ trim(lock.prefix.v) # ""
                     THEN lock.prefix.v ELSE DEFAULT_LOCK_OPTIONS.prefix,
        ttl |-> toPositive(lock.ttl, DEFAULT_LOCK_OPTIONS.ttl),
        waitTimeout |-> toPositive(lock.waitTimeout, DEFAULT_LOCK_OPTIONS.waitTimeout),
        retryDelay |-> toPositive(lock.retryDelay, DEFAULT_LOCK_OPTIONS.retryDelay),
        retryJitter |-> toPositive(lock.retryJitter, DEFAULT_LOCK_OPTIONS.retryJitter)]

(* -------------------------------- state -------------------------------- *)
VARIABLES
  env,       \* what the extension was constructed with and what its surroundings do
  call,      \* call[c]: the invocation c of $allOperations, its inputs and locals
  cache,     \* the cache store: key string -> entry
  locks,     \* the lock records of the lock connection: lock key -> token
  inflight,  \* inflight[p]: the in-flight Map of the extension in process p
  db         \* the version of the row the query executor reads and writes

vars == <<env, call, cache, locks, inflight, db>>

\* maps with a changing domain (Map, the stores)
EmptyMap == [x \in {} |-> 0]
MapSet(m, k, v) == [x \in (DOMAIN m) \cup {k} |-> IF x = k THEN v ELSE m[x]]
MapDel(m, k) == [x \in (DOMAIN m) \ {k} |-> m[x]]
MapDelAll(m, ks) == [x \in (DOMAIN m) \ ks |-> m[x]]
Range(s) == {s[i] : i \in DOMAIN s}

\* outcomes of a promise
Pending == [t |-> "pending"]
Ok(v) == [t |-> "ok", v |-> v]
\* the failure thrown by the query executor in call c
Err(c) == [t |-> "error", v |-> c]
\* the failure a cache store or lock connection call rejects with
StoreError == [t |-> "error", v |-> 0]
\* the TypeError of reading a property of undefined or calling what is no function
TypeError == [t |-> "error", v |-> -1]

NoArgs == [cache |-> Undefined, uncache |-> Undefined, where |-> 0]

\* One invocation of $allOperations: its inputs (proc, model, op, args), where it
\* stands (st, path), its locals (key, ttl, db, acquired, the outcome res held
\* while the lock is released, and rel: whether releaseLock has been called
\* and has settled), the task whose promise it returns (task), the deletes
\* still under way (dels: awaited, bg: not awaited), its outcome (out), and for
\* the record: the arguments it invoked the query executor with (qargs), the
\* calls that had returned when it was made (after), what the registry held
\* when its first lookup missed (found) and what it did (log).
IdleCall ==
  [st |-> "idle", proc |-> 0, model |-> "", op |-> "", args |-> NoArgs,
   path |-> "", key |-> Undefined, ttl |-> Undefined, db |-> Undefined,
   res |-> Pending, out |-> Pending, acquired |-> FALSE, task |-> 0,
   rel |-> "no", found |-> 0, after |-> {}, polls |-> 0, dels |-> {},
   bg |-> {}, qargs |-> Undefined, log |-> <<>>]

lockOptions == resolveLockOptions(env.lock)

\* whether a store or lock call may fail here
Oks ==
  CASE env.faults = "none" -> {TRUE}
    [] env.faults = "all" -> {FALSE}
    [] OTHER -> BOOLEAN
QueryOks == IF env.qfaults THEN BOOLEAN ELSE {TRUE}

(* ------------------- the interceptor, variant by variant --------------- *)
\* env.variant names the source file whose $allOperations is installed. Each
\* of these is the test or the computation at the same place of that file.

\* the directive asks for caching
usesCache(cOpt) ==
  CASE env.variant = "part_000" -> ~(cOpt = Undefined \/ cOpt = Bool(FALSE))
    [] env.variant = "index.ts" -> shouldUseCache(cOpt)
    [] OTHER -> cOpt # Undefined

\* the key is a function of the result
keyFromResult(cOpt) ==
  CASE env.variant = "part_000" -> hasResultKeyFactory(cOpt)
    [] env.variant = "index.ts" ->
         /\ typeof(cOpt) \notin {"boolean", "number", "string"}
         /\ typeof(EntryKey(cOpt)) = "function"
    [] OTHER -> hasKeyFunction_p1(cOpt)

staticConfig(model, cOpt, queryArgs) ==
  CASE env.variant = "part_000" -> resolveStaticCacheConfig(model, cOpt, queryArgs)
    [] env.variant = "part_001" -> staticConfig_p1(model, cOpt, queryArgs)
    [] env.variant = "part_003" -> staticConfig_p3(model, cOpt, queryArgs)
    [] OTHER -> staticConfig_ix(model, cOpt, queryArgs)

\* the ttl of an entry written under a key made from the result
factoryTtl(cOpt) ==
  IF env.variant \in {"part_000", "part_001"} THEN Coalesce(cOpt.ttl, Undefined)
  ELSE cOpt.ttl

\* the operation is taken for a write: no lookup before the query
writeOp(op) ==
  CASE env.variant = "part_000" -> isWrite(op)
    [] env.variant = "part_001" -> isWrite_p1(op)
    [] env.variant = "part_003" -> op \in WRITE_OPS
    [] OTHER -> isWriteOperation(op)

\* the store keys to delete after the query, or the TypeError on the way
uncacheKeys(opt, res) ==
  LET u == CASE env.variant = "part_000" ->
                  LET ks == toUncache(opt, res)
                  IN Keys([i \in 1..Len(ks) |-> Str(ks[i])])
             [] env.variant = "part_001" -> toUncache_p1(opt, res)
             [] env.variant = "part_003" -> toUncache_p3(opt, res)
             [] OTHER -> IF shouldUseUncache(opt) THEN keysToDelete(opt, res)
                         ELSE Keys(<<>>)
  IN [thrown |-> u.thrown, keys |-> [i \in 1..Len(u.keys) |-> ToStr(u.keys[i])]]

(* ------------------------------ the stores ----------------------------- *)
\* the string the store files a key under
StoreKey(k) == ToStr(k)

\* get(key): the entry's value, undefined when there is none
StoreGet(k) == IF StoreKey(k) \in DOMAIN cache THEN cache[StoreKey(k)].v ELSE Undefined

\* set(key, value, ttl): an entry with a positive ttl expires, any other stays
StoreSet(k, v, ttl) ==
  MapSet(cache, StoreKey(k), [v |-> v, exp |-> typeof(ttl) = "number" /\ ttl.v > 0])

\* What a store call settles with: thrown (it rejected), v (the value it
\* resolved with) and cache (the store after it).
Settled(thrown, v, store) == [thrown |-> thrown, v |-> v, cache |-> store]

\* promise.catch(() => v): a rejection becomes the value v
Catch(s, v) == IF s.thrown THEN Settled(FALSE, v, s.cache) ELSE s

cacheGet(k, ok) == Settled(~ok, IF ok THEN StoreGet(k) ELSE Undefined, cache)
cacheSet(k, v, ttl, ok) == Settled(~ok, Undefined, IF ok THEN StoreSet(k, v, ttl) ELSE cache)
cacheDeleteMany(ks, ok) == Settled(~ok, Undefined, IF ok THEN MapDelAll(cache, ks) ELSE cache)
cacheDelete(k, ok) == Settled(~ok, Undefined, IF ok THEN MapDel(cache, k) ELSE cache)

safeGet(k, ok) == Catch(cacheGet(k, ok), Undefined)
\* a safeSet that leaves the store as it is
safeSetSkip(k, v, ttl, ok) == Settled(FALSE, Undefined, cache)
safeSet(k, v, ttl, ok) == Catch(cacheSet(k, v, ttl, ok), Undefined)
\* processUncache: deleteMany(cache, keys).catch(() => {})
safeDeleteMany(ks, ok) == Catch(cacheDeleteMany(ks, ok), Undefined)
safeDelete(k, ok) == Catch(cacheDelete(k, ok), Undefined)

lockKeyOf(k) == lockOptions.prefix \o ":" \o ToStr(k)

\* createLockToken: pid, time and a random suffix; one token per call
createLockToken(c) == c

\* a set without "NX": the record is written whether or not there is one
redisSetPX(lockKey, token, ttl, ok) ==
  IF ok /\ ttl > 0
    THEN [thrown |-> FALSE, v |-> Str("OK"), locks |-> MapSet(locks, lockKey, token)]
    ELSE [thrown |-> TRUE, v |-> Null, locks |-> locks]

\* redis.set(key, token, "PX", ttl, "NX"): "OK" when the record was absent;
\* the server rejects an expire time that is not positive
redisSetNX(lockKey, token, ttl, ok) ==
  IF ok /\ ttl > 0 /\ lockKey \notin DOMAIN locks
    THEN [thrown |-> FALSE, v |-> Str("OK"), locks |-> MapSet(locks, lockKey, token)]
    ELSE [thrown |-> ~ok \/ ttl <= 0, v |-> Null, locks |-> locks]

\* tryAcquireLock: a rejection reads as undefined; acquired on "OK" or true
tryAcquireLock(lockKey, token, ttl, ok) ==
  LET s == redisSetNX(lockKey, token, ttl, ok)
      result == IF s.thrown THEN Undefined ELSE s.v
  IN [thrown |-> FALSE, acquired |-> result = Str("OK") \/ result = Bool(TRUE),
      locks |-> s.locks]

\* a release by plain del: the record goes whoever holds it
redisEvalDel(lockKey, token, ok) ==
  [thrown |-> ~ok,
   locks |-> IF ok THEN MapDel(locks, lockKey) ELSE locks]

\* LOCK_RELEASE_SCRIPT: delete the record if its value is the token
redisEvalRelease(lockKey, token, ok) ==
  [thrown |-> ~ok,
   locks |-> IF ok /\ lockKey \in DOMAIN locks /\ locks[lockKey] = token
               THEN MapDel(locks, lockKey) ELSE locks]

\* a releaseLock without the catch
releaseLockUncaught(lockKey, token, ok) == redisEvalRelease(lockKey, token, ok)

\* releaseLock: redis.eval(...).catch(() => {})
releaseLock(lockKey, token, ok) ==
  [redisEvalRelease(lockKey, token, ok) EXCEPT !.thrown = FALSE]

\* store.client.getBuffer(key): null when there is no entry
clientGetBuffer(k, ok) ==
  Settled(~ok, IF ~ok THEN Undefined
               ELSE IF StoreKey(k) \in DOMAIN cache THEN cache[StoreKey(k)].v
               ELSE Null, cache)

\* The lookup of a read before its query: v is what came back, hit whether
\* the call returns on it, data what it returns then.
lookup(k, ok) ==
  CASE env.variant = "part_000" ->
         LET g == safeGet(k, ok)
         IN [thrown |-> g.thrown, v |-> g.v, hit |-> isCacheHit(g.v), data |-> g.v]
    [] env.variant = "part_001" ->
         LET g == Catch(cacheGet(k, ok), Undefined)
         IN [thrown |-> g.thrown, v |-> g.v, hit |-> isHit_p1(g.v), data |-> g.v]
    [] env.variant = "part_003" ->
         LET g == Catch(cacheGet(k, ok), Undefined)
         IN [thrown |-> g.thrown, v |-> g.v, hit |-> isHit_p3(g.v), data |-> g.v]
    [] OTHER ->
         LET g == Catch(clientGetBuffer(k, ok), Undefined)
         IN [thrown |-> g.thrown, v |-> g.v, hit |-> Truthy(g.v),
             data |-> IF Truthy(g.v) THEN deserialize(g.v) ELSE Undefined]

\* the write of the result after the query
store(k, v, ttl, ok) ==
  CASE env.variant = "part_000" -> safeSet(k, v, ttl, ok)
    [] env.variant = "part_001" -> cacheSet(k, v, ttl, ok)
    [] env.variant = "part_003" -> Catch(cacheSet(k, v, ttl, ok), Undefined)
    [] OTHER -> Catch(cacheSet(k, serialize(v), effectiveTtl(ttl, env.ttl), ok), Undefined)

(* ------------------------ continuations of a call ---------------------- *)
\* an entry of a call's record of what it did: the external call e, the store
\* keys ks it named, and the value v it carried or came back with
Ev(e, ks, v) == [e |-> e, ks |-> ks, v |-> v]
Log(r, ev) == [r EXCEPT !.log = Append(@, ev)]

Done(r, outcome) == [r EXCEPT !.st = "done", !.out = outcome]

\* (AfterTaskNoFinally: a holder that releases only after its query, not
\* after a hit in the locked lookup.)
\* The single-flight task comes to its outcome. The holder's finally block
\* awaits releaseLock before the task settles: it is entered here when the
\* try block returns a value (the locked hit), and it was entered already when
\* the try block returned the promise of executeQueryAndCache.
AfterTaskNoFinally(r, outcome) ==
  IF r.rel = "pending" THEN [r EXCEPT !.st = "release", !.res = outcome]
  ELSE Done(r, outcome)

AfterTask(r, outcome) ==
  IF r.acquired /\ r.rel = "no"
    THEN [r EXCEPT !.st = "release", !.res = outcome, !.rel = "pending"]
  ELSE IF r.rel = "pending" THEN [r EXCEPT !.st = "release", !.res = outcome]
  ELSE Done(r, outcome)

\* a throw at some await of the call
Throw(r, error) ==
  IF r.path = "read" /\ r.task # 0 THEN AfterTask(r, error) ELSE Done(r, error)

\* after processUncache: what follows executeQuery on each path
AfterUncache(r) ==
  IF r.path = "plain" THEN Done(r, Ok(r.db))
  ELSE IF r.path = "factory"
    THEN [r EXCEPT !.st = "set",
                   !.key = Apply(r.args.cache.key.v, r.db),
                   !.ttl = factoryTtl(r.args.cache)]
  ELSE [r EXCEPT !.st = "set"]

\* after query(queryArgs) returned r.db: the deletion is awaited, except by
\* the finish helper of part_003, which only issues it
AfterQuery(r) ==
  IF r.path = "pass" THEN Done(r, Ok(r.db))
  ELSE LET u == uncacheKeys(r.args.uncache, r.db) IN
       IF u.thrown THEN Throw(r, TypeError)
       ELSE IF Len(u.keys) = 0 THEN AfterUncache(r)
       ELSE IF env.variant = "part_003"
         THEN AfterUncache([r EXCEPT !.bg = Range(u.keys)])
       ELSE [r EXCEPT !.st = "uncache",
                      !.dels = IF env.deleteMany THEN {} ELSE Range(u.keys)]

\* after safeSet
AfterSet(r) ==
  IF r.path = "read" THEN AfterTask(r, Ok(r.db)) ELSE Done(r, Ok(r.db))

\* executeQueryAndCache / executeQuery: the query is issued
\* (query(args) for an operation that is passed through, query(queryArgs) else)
IssueQuery(r) ==
  [r EXCEPT !.st = "query",
            !.qargs = IF r.path = "pass" THEN r.args ELSE queryArgsOf(r.args)]

\* a runSingleFlight that never finds a pending task
pendingTaskNone(p, key) == 0

\* runSingleFlight: the task pending for the key in this process (0: none)
pendingTask(p, key) == IF key \in DOMAIN inflight[p] THEN inflight[p][key] ELSE 0

\* a task without the finally block: the registry entry goes only on success
StepNoFinally(c, r) ==
  LET settles == call[c].st # "done" /\ r.st = "done" /\ call[c].task = c
  IN /\ call' = [d \in Calls |->
                   IF d = c THEN r
                   ELSE IF settles /\ call[d].st = "joined" /\ call[d].task = c
                     THEN Done(call[d], r.out)
                   ELSE call[d]]
     /\ inflight' = IF settles /\ r.out.t = "ok"
                      THEN [inflight EXCEPT ![call[c].proc] = MapDel(@, call[c].key)]
                      ELSE inflight

\* Call c moves on to r. When that settles the task c runs, the finally block
\* removes the registry entry, and the callers that returned the same promise
\* settle with the same outcome.
Step(c, r) ==
  LET settles == call[c].st # "done" /\ r.st = "done" /\ call[c].task = c
  IN /\ call' = [d \in Calls |->
                   IF d = c THEN r
                   ELSE IF settles /\ call[d].st = "joined" /\ call[d].task = c
                     THEN Done(call[d], r.out)
                   ELSE call[d]]
     /\ inflight' = IF settles
                      THEN [inflight EXCEPT ![call[c].proc] = MapDel(@, call[c].key)]
                      ELSE inflight

(* ------------------------------- actions ------------------------------- *)
\* $allOperations is called: everything up to its first await
Start(c, p, m, o, a) ==
  /\ call[c].st = "idle"
  /\ c <= env.calls
  \* the processes are alike: the first call is made in process 1
  /\ c = 1 => p = 1
  /\ \A d \in Calls : d < c => call[d].st # "idle"
  /\ LET r0 == [IdleCall EXCEPT !.proc = p, !.model = m, !.op = o, !.args = a,
                                !.after = {d \in Calls : call[d].st = "done"}]
         cOpt == a.cache
         cfg == staticConfig(m, cOpt, queryArgsOf(a))
         r == IF o \notin CACHE_OPERATION_SET
                THEN IssueQuery([r0 EXCEPT !.path = "pass"])
              ELSE IF ~usesCache(cOpt)
                THEN IssueQuery([r0 EXCEPT !.path = "plain"])
              ELSE IF keyFromResult(cOpt)
                THEN IssueQuery([r0 EXCEPT !.path = "factory"])
              ELSE IF writeOp(o)
                THEN IssueQuery([r0 EXCEPT !.path = "write", !.key = cfg.key,
                                           !.ttl = cfg.ttl])
              ELSE [r0 EXCEPT !.path = "read", !.key = cfg.key, !.ttl = cfg.ttl,
                              !.st = "get1"]
     IN call' = [call EXCEPT ![c] = r]
  /\ UNCHANGED <<env, cache, locks, inflight, db>>

\* the first lookup settles; on a miss the call enters runSingleFlight, where
\* there is one, and goes on to its query where there is none
FirstGet(c, ok) ==
  /\ call[c].st = "get1"
  /\ LET p == call[c].proc
         key == call[c].key
         g == lookup(key, ok)
         r == Log(call[c], Ev("get", {StoreKey(key)}, g.v))
         pending == pendingTask(p, key)
     IN IF g.thrown THEN Step(c, Throw(r, StoreError))
        ELSE IF g.hit THEN Step(c, Done(r, Ok(g.data)))
        ELSE IF env.variant # "part_000" THEN Step(c, IssueQuery(r))
        ELSE IF pending # 0
          THEN /\ call' = [call EXCEPT ![c] =
                     [r EXCEPT !.st = "joined", !.task = pending,
                               !.found = IF key \in DOMAIN inflight[p]
                                           THEN inflight[p][key] ELSE 0]]
               /\ UNCHANGED inflight
          ELSE /\ call' = [call EXCEPT ![c] =
                     [r EXCEPT !.st = "get2", !.task = c,
                               !.found = IF key \in DOMAIN inflight[p]
                                           THEN inflight[p][key] ELSE 0]]
               /\ inflight' = [inflight EXCEPT ![p] = MapSet(@, key, c)]
  /\ UNCHANGED <<env, cache, locks, db>>

\* a second lookup that goes on to processUncache with the value it found
SecondGetUncache(c, ok) ==
  /\ call[c].st = "get2"
  /\ LET g == safeGet(call[c].key, ok)
         r == Log(call[c], Ev("get", {StoreKey(call[c].key)}, g.v))
     IN Step(c, IF g.thrown THEN Throw(r, StoreError)
                ELSE IF isCacheHit(g.v) THEN AfterQuery([r EXCEPT !.db = g.v])
                ELSE IF ~lockOptions.enabled \/ ~env.redis THEN IssueQuery(r)
                ELSE [r EXCEPT !.st = "acquire"])
  /\ UNCHANGED <<env, cache, locks, db>>

\* inside the task: the second lookup settles
SecondGet(c, ok) ==
  /\ call[c].st = "get2"
  /\ LET g == safeGet(call[c].key, ok)
         r == Log(call[c], Ev("get", {StoreKey(call[c].key)}, g.v))
     IN Step(c, IF g.thrown THEN Throw(r, StoreError)
                ELSE IF isCacheHit(g.v) THEN AfterTask(r, Ok(g.v))
                ELSE IF ~lockOptions.enabled \/ ~env.redis THEN IssueQuery(r)
                ELSE [r EXCEPT !.st = "acquire"])
  /\ UNCHANGED <<env, cache, locks, db>>

\* tryAcquireLock settles
Acquire(c, ok) ==
  /\ call[c].st = "acquire"
  /\ LET lockKey == lockKeyOf(call[c].key)
         a == tryAcquireLock(lockKey, createLockToken(c), lockOptions.ttl, ok)
         r == Log(call[c], Ev("lock", {lockKey}, Bool(a.acquired)))
     IN /\ locks' = a.locks
        /\ Step(c, IF a.thrown THEN Throw(r, StoreError)
                   ELSE IF a.acquired THEN [r EXCEPT !.st = "get3", !.acquired = TRUE]
                   ELSE [r EXCEPT !.st = "wait"])
  /\ UNCHANGED <<env, cache, db>>

\* a holder that goes to its query without looking the key up again
LockedGetSkip(c, ok) ==
  /\ call[c].st = "get3"
  /\ Step(c, [IssueQuery(call[c]) EXCEPT !.rel = "pending"])
  /\ UNCHANGED <<env, cache, locks, db>>

\* The holder's lookup after the acquisition settles. On a miss the try block
\* returns executeQueryAndCache(...) without awaiting it, so the query is
\* issued and the finally block calls releaseLock in the same step.
LockedGet(c, ok) ==
  /\ call[c].st = "get3"
  /\ LET g == safeGet(call[c].key, ok)
         r == Log(call[c], Ev("get", {StoreKey(call[c].key)}, g.v))
     IN Step(c, IF g.thrown THEN Throw(r, StoreError)
                ELSE IF isCacheHit(g.v) THEN AfterTask(r, Ok(g.v))
                ELSE [IssueQuery(r) EXCEPT !.rel = "pending"])
  /\ UNCHANGED <<env, cache, locks, db>>

\* Math.floor(Math.random() * (retryJitter + 1)): the least and the greatest
Jitters == {0, lockOptions.retryJitter}

\* waitForCacheFill: before the deadline, one sleep and one lookup
Poll(c, jitter, ok) ==
  /\ call[c].st = "wait"
  /\ lockOptions.waitTimeout > 0
  /\ call[c].polls < MaxPolls
  /\ LET g == safeGet(call[c].key, ok)
         slept == Log(call[c], Ev("sleep", {}, Num(lockOptions.retryDelay + jitter)))
         r == [Log(slept, Ev("get", {StoreKey(call[c].key)}, g.v))
                 EXCEPT !.polls = @ + 1]
     IN Step(c, IF g.thrown THEN Throw(r, StoreError)
                ELSE IF isCacheHit(g.v) THEN AfterTask(r, Ok(g.v))
                ELSE r)
  /\ UNCHANGED <<env, cache, locks, db>>

\* wait loop without a deadline
WaitTimeoutNever(c) ==
  /\ call[c].st = "wait"
  /\ FALSE
  /\ UNCHANGED vars

\* waitForCacheFill: the deadline has passed; the waiter runs the query itself.
\* The deadline lies waitTimeout after the loop is entered: unless that is 0,
\* the loop body has run before the loop condition fails.
WaitTimeout(c) ==
  /\ call[c].st = "wait"
  /\ call[c].polls >= 1 \/ lockOptions.waitTimeout = 0
  /\ Step(c, IssueQuery(Log(call[c], Ev("timeout", {}, Undefined))))
  /\ UNCHANGED <<env, cache, locks, db>>

\* The table holds the row with id 1; where 0 stands for no filter. A query
\* for one row that matches none resolves to null.
Matches(a) == a.where \in {0, 1}

\* the operations that change the row
Mutates(op) ==
  op \in {"create", "createMany", "updateMany", "upsert", "update", "delete"}

\* query(queryArgs) settles: a write operation changes the row
Query(c, ok) ==
  /\ call[c].st = "query"
  /\ LET written == Mutates(call[c].op)
         version == IF written THEN db + 1 ELSE db
         result == IF ~ok THEN Undefined
                   ELSE IF Matches(call[c].args) THEN Row(version) ELSE Null
         r == Log(call[c], Ev("query", {}, result))
     IN /\ written /\ ok => db < MaxDb
        /\ db' = IF ok THEN version ELSE db
        /\ Step(c, IF ok THEN AfterQuery([r EXCEPT !.db = result])
                   ELSE Throw(r, Err(c)))
  /\ UNCHANGED <<env, cache, locks>>

\* the array of keys a delete call is given
KeyList(list) == Arr([i \in 1..Len(list) |-> Str(list[i])])

\* processUncache with cache.deleteMany: the one store call settles
Uncache(c, ok) ==
  /\ call[c].st = "uncache"
  /\ env.deleteMany
  /\ LET list == uncacheKeys(call[c].args.uncache, call[c].db).keys
         keys == Range(list)
         s == safeDeleteMany(keys, ok)
         r == Log(call[c], Ev("delete", keys, KeyList(list)))
     IN /\ cache' = s.cache
        /\ Step(c, IF s.thrown THEN Throw(r, StoreError) ELSE AfterUncache(r))
  /\ UNCHANGED <<env, locks, db>>

\* processUncache without cache.deleteMany: one of the parallel cache.delete
\* calls settles; Promise.all settles with the last one or with the first failure
DeleteOne(c, k, ok) ==
  /\ k \in call[c].dels
  /\ LET s == cacheDelete(k, ok)
         r == [Log(call[c], Ev("delete", {k}, Undefined)) EXCEPT !.dels = @ \ {k}]
     IN /\ cache' = s.cache
        /\ Step(c, IF r.st = "uncache" /\ (s.thrown \/ r.dels = {})
                     THEN (IF Catch(s, Undefined).thrown THEN Throw(r, StoreError)
                           ELSE AfterUncache(r))
                     ELSE r)
  /\ UNCHANGED <<env, locks, db>>

\* the deletion that the finish helper issued and did not await settles
Mdel(c, ok) ==
  /\ call[c].bg # {}
  /\ LET s == safeDeleteMany(call[c].bg, ok)
         r == [Log(call[c], Ev("delete", call[c].bg, Undefined)) EXCEPT !.bg = {}]
     IN /\ cache' = s.cache
        /\ Step(c, r)
  /\ UNCHANGED <<env, locks, db>>

\* the write of the result settles
Set(c, ok) ==
  /\ call[c].st = "set"
  /\ LET s == store(call[c].key, call[c].db, call[c].ttl, ok)
         r == Log(call[c], Ev("set", {StoreKey(call[c].key)}, call[c].db))
     IN /\ cache' = s.cache
        /\ Step(c, IF s.thrown THEN Throw(r, StoreError) ELSE AfterSet(r))
  /\ UNCHANGED <<env, locks, db>>

\* releaseLock settles; the task settles with what the try block left, once
\* that has settled too
Release(c, ok) ==
  /\ call[c].rel = "pending"
  /\ LET lockKey == lockKeyOf(call[c].key)
         s == releaseLock(lockKey, createLockToken(c), ok)
         \* the value the script's get comes back with
         seen == IF ~ok THEN Undefined
                 ELSE IF lockKey \in DOMAIN locks THEN Num(locks[lockKey]) ELSE Null
         r == [Log(call[c], Ev("unlock", {lockKey},
                               Arr(<<Num(createLockToken(c)), seen>>)))
                 EXCEPT !.rel = "done"]
     IN /\ locks' = s.locks
        /\ Step(c, IF r.st = "release"
                     THEN Done(r, IF s.thrown THEN StoreError ELSE r.res)
                     ELSE r)
  /\ UNCHANGED <<env, cache, db>>

\* the store drops an entry whose ttl has run out
ExpireEntry(k) ==
  /\ env.expiry
  /\ k \in DOMAIN cache
  /\ cache[k].exp
  /\ cache' = MapDel(cache, k)
  /\ UNCHANGED <<env, call, locks, inflight, db>>

\* the lock connection drops a lock record whose PX ttl has run out
ExpireLock(k) ==
  /\ env.expiry
  /\ k \in DOMAIN locks
  /\ locks' = MapDel(locks, k)
  /\ UNCHANGED <<env, call, cache, inflight, db>>

(* ------------------------- callers and surroundings -------------------- *)
Args(cOpt, uncache, where) == [cache |-> cOpt, uncache |-> uncache, where |-> where]
Shape(m, o, a) == [model |-> m, op |-> o, args |-> a]

\* The calls of the README's usage example (package.json, README part) ...
FindCached ==
  Shape("user", "findUniqueOrThrow", Args(Bool(TRUE), Undefined, 1))
FindManyTtl ==
  Shape("user", "findMany", Args(Num(5000), Undefined, 0))
CountCached ==
  Shape("user", "count", Args(Obj(Str("user_count"), Undefined, Num(2000)), Undefined, 0))
UpdateFactory ==
  Shape("user", "update", Args(Obj(Fn("userKey"), Undefined, Num(2000)), Undefined, 1))
CreateUncache ==
  Shape("user", "create", Args(Undefined, Str("user_count"), 1))
CreateFactory ==
  Shape("user", "create",
        Args(Obj(Fn("userKey"), Undefined, Num(2000)),
             Arr(<<Str("user_count"), Str("users")>>), 1))
\* ... and their neighbours: the same directives on the other operations
UpdateFactorySelf ==
  Shape("user", "update",
        Args(Obj(Fn("userKey"), Undefined, Num(2000)), Fn("userKey"), 1))
FindFirstNone ==
  Shape("user", "findFirst", Args(Bool(TRUE), Undefined, 2))
UpdatePlain ==
  Shape("user", "update", Args(Undefined, Undefined, 1))
UpdateUncache ==
  Shape("user", "update", Args(Undefined, Str("user_count"), 1))
UpdateUncacheList ==
  Shape("user", "update",
        Args(Bool(FALSE), Arr(<<Str("user_count"), Str("users")>>), 1))
\* an update that names the key of FindCached in its uncache
UpdateInvalidate ==
  Shape("user", "update",
        Args(Undefined, Str(composedKey("user", queryArgsOf(FindCached.args))), 1))
CountString ==
  Shape("user", "count", Args(Str("user_count"), Undefined, 0))
\* a read that switches the cache off and names a key to delete
FindUncached ==
  Shape("user", "findUniqueOrThrow", Args(Bool(FALSE), Str("user_count"), 1))
\* an operation outside the operation lists, with both directives
AggregateCached ==
  Shape("user", "aggregate", Args(Bool(TRUE), Str("user_count"), 0))
CountFactory ==
  Shape("user", "count", Args(Obj(Fn("countKey"), Undefined, Undefined), Undefined, 0))
\* an operation whose uncache list names its own cache key
SelfKeyed(o, where) ==
  Shape("user", o,
        Args(Obj(Str("user_count"), Undefined, Num(2000)),
             Arr(<<Str("users"), Str("user_count")>>), where))
\* a read of another model, with other arguments, under the key of SelfKeyed
PostKeyed ==
  Shape("post", "findFirst",
        Args(Obj(Str("user_count"), Undefined, Num(2000)), Undefined, 2))
WriteStatic(o) ==
  Shape("user", o, Args(Str("user_count"), Str("users"), 1))

ReadmeShapes ==
  {FindCached, FindManyTtl, CountCached, UpdateFactory, CreateUncache, CreateFactory}
WriteShapes ==
  {WriteStatic(o) : o \in {"create", "createMany", "updateMany", "upsert", "update"}}
AllShapes ==
  ReadmeShapes \cup WriteShapes
    \cup {UpdatePlain, UpdateUncache, UpdateUncacheList, UpdateInvalidate,
          CountString, CountFactory, AggregateCached, FindUncached}

\* An environment: which file's extension it is (variant), the configuration
\* it is constructed with (lock, the default ttl, the cache handle's redis
\* connection and deleteMany method), what can go
\* wrong around it (faults: "none", "some" or "all" of the store and lock calls
\* fail; qfaults: the query executor may fail; expiry: ttls may run out), and
\* what the callers do (how many calls, from which processes, of which shapes).
Env(lock, redis, deleteMany, faults, qfaults, expiry, calls, procs, shapes) ==
  [variant |-> "part_000", ttl |-> Undefined,
   lock |-> lock, redis |-> redis, deleteMany |-> deleteMany, faults |-> faults,
   qfaults |-> qfaults, expiry |-> expiry, calls |-> calls, procs |-> procs,
   shapes |-> shapes]

\* every shape, two calls, everything may go wrong
BroadEnvs ==
  {Env(l, TRUE, d, "some", TRUE, TRUE, MaxCalls - 1, Procs, AllShapes) :
     l \in {Undefined, Bool(FALSE)}, d \in BOOLEAN}

\* the README's count and its invalidation, three calls, nothing goes wrong
StampedeEnvs ==
  {Env(l, TRUE, TRUE, "none", q, FALSE, MaxCalls, Procs,
       {CountCached, UpdateUncache, CreateUncache}) :
     l \in {Undefined, Bool(FALSE)}, q \in BOOLEAN}

\* one read repeated, with updates in between that do or do not name its key
RepeatEnvs ==
  {Env(l, TRUE, TRUE, "none", FALSE, FALSE, MaxCalls, Procs,
       {FindCached, UpdatePlain, UpdateInvalidate}) :
     l \in {Undefined, Bool(FALSE)}}

\* every store and lock call fails
DegradedEnvs ==
  {Env(l, TRUE, d, "all", TRUE, FALSE, MaxCalls - 1, Procs,
       {CountCached, UpdateFactory, UpdateUncacheList, WriteStatic("update")}) :
     l \in {Undefined, Bool(FALSE)}, d \in BOOLEAN}

\* the extensions of the other files: every shape, two calls of one process,
\* everything may go wrong
OtherEnvs ==
  {[Env(Bool(FALSE), FALSE, TRUE, "some", TRUE, TRUE, MaxCalls - 1, {1}, AllShapes)
      EXCEPT !.variant = v[1], !.ttl = v[2]] :
     v \in {<<"part_001", Undefined>>, <<"part_003", Undefined>>,
             <<"index.ts", Undefined>>, <<"index.ts", Num(1000)>>}}

\* a read that finds no row, repeated, in each of the extensions that keep
\* the values as they are
NullEnvs ==
  {[Env(Undefined, TRUE, TRUE, "some", FALSE, FALSE, MaxCalls - 1, {1},
        {FindFirstNone}) EXCEPT !.variant = v] :
     v \in {"part_000", "part_001", "part_003"}}

\* the cache directives a caller can write: the documented ones and the
\* malformed ones
Directives ==
  {Bool(TRUE), Num(0), Num(5000), Str(""), Str("k"), Null, Fn("userKey"),
   Arr(<<>>), Arr(<<Str("k")>>)}
    \cup {Obj(k, n, l) : k \in {Undefined, Null, Str(""), Str("k"), Num(7)},
                         n \in {Undefined, Null, Str(""), Str("n")},
                         l \in {Undefined, Null, Num(0), Num(2000)}}

\* one read with any of the directives
DirectiveEnvs ==
  {Env(Bool(FALSE), TRUE, TRUE, "none", FALSE, FALSE, 1, {1},
       {Shape("user", "findMany", Args(d, Undefined, 1)) : d \in Directives})}

\* the uncache directives a caller can write
Uncaches ==
  {Undefined, Null, Bool(FALSE), Num(0), Str(""), Str("k"),
   Fn("countKey"), Fn("keyList"), Fn("mixedList"),
   Arr(<<>>), Arr(<<Str("")>>), Arr(<<Str("a"), Str("b")>>),
   Arr(<<Obj(Str("k"), Str("n"), Undefined), Obj(Str("k"), Undefined, Undefined)>>),
   Arr(<<Str("a"), Obj(Str("k"), Str("n"), Undefined)>>),
   Arr(<<Obj(Str("k"), Str("n"), Undefined), Str("a")>>),
   Arr(<<Str(""), Num(5), Obj(Undefined, Str("n"), Undefined),
         Obj(Num(7), Undefined, Undefined), Str("a")>>)}

\* one update with any of the uncache directives, in the extension with the
\* lock and in the msgpack one
UncacheEnvs ==
  {[Env(Bool(FALSE), TRUE, v[2], "none", FALSE, FALSE, 1, {1},
        {Shape("user", "update", Args(Undefined, u, 1)) : u \in Uncaches})
      EXCEPT !.variant = v[1]] :
     v \in {<<"part_000", TRUE>>, <<"part_000", FALSE>>, <<"index.ts", TRUE>>}}

\* writes and a read whose key is made from the result, one of them naming
\* its own key for deletion; nothing goes wrong
RoundTripEnvs ==
  {Env(Bool(FALSE), TRUE, d, "none", FALSE, e, MaxCalls - 1, {1},
       {UpdateFactory, UpdateFactorySelf, CountFactory}) :
     d \in BOOLEAN, e \in BOOLEAN}

\* The README's count with the lock switched off in each way (lock: false,
\* lock.enabled false, a store without a redis connection), and switched on.
LockEnvs ==
  {Env(l[1], l[2], TRUE, "some", TRUE, FALSE, MaxCalls - 1, Procs, {CountCached}) :
     l \in {<<Bool(FALSE), TRUE>>,
             <<LockCfg(Bool(FALSE), Undefined, Undefined, Undefined, Undefined,
                       Undefined), TRUE>>,
             <<Undefined, FALSE>>,
             <<LockCfg(Bool(TRUE), Str("lock"), Num(100), Undefined, Undefined,
                       Undefined), TRUE>>}}

\* One read under each lock configuration: the numeric fields missing, zero,
\* negative, an integer, a fraction below and above 1, infinite, NaN and a
\* string; the prefix missing, empty, blank, a name and a number.
OptionEnvs ==
  LET numbers == {Undefined, Num(0), Num(0 - 3), Num(7), Real("half", 0),
                  Real("half", 7), Real("infinite", 1), Real("infinite", 0 - 1),
                  Real("nan", 0), Str("9")}
      configs ==
        {LockCfg(Undefined, Undefined, x, x, x, x) : x \in numbers}
          \cup {LockCfg(Undefined, p, Undefined, Undefined, Undefined, Undefined) :
                  p \in {Str(""), Str(" "), Str("lock"), Num(3)}}
          \cup {LockCfg(Bool(TRUE), Undefined, Num(7), Undefined, Real("half", 0),
                        Undefined),
                LockCfg(Undefined, Undefined, Undefined, Real("half", 7), Undefined,
                        Num(0))}
  IN {Env(l, TRUE, TRUE, "none", TRUE, FALSE, 1, {1}, {CountCached}) : l \in configs}

\* two calls of reads and writes that carry both directives
BothEnvs ==
  {[Env(x[2], TRUE, TRUE, "none", TRUE, FALSE, MaxCalls - 1, Procs,
        {SelfKeyed("count", 0), SelfKeyed("update", 1), SelfKeyed("delete", 1),
         PostKeyed}
          \cup {Shape("user", "findMany", Args(d, Undefined, 0)) :
                  d \in {Bool(TRUE), Num(5000)}})
      EXCEPT !.variant = x[1]] :
     x \in {<<"part_000", Undefined>>, <<"part_000", Bool(FALSE)>>,
             <<"index.ts", Bool(FALSE)>>}}

\* one read with a directive object whose key is a number or the empty
\* string, in the msgpack extension
MalformedEnvs ==
  {[Env(Bool(FALSE), FALSE, TRUE, "none", FALSE, FALSE, 1, {1},
        {Shape("user", "findMany", Args(Obj(k, n, Undefined), Undefined, 1)) :
           k \in {Num(7), Str("")}, n \in {Undefined, Str("n")}})
      EXCEPT !.variant = "index.ts"]}

Envs ==
  BroadEnvs \cup StampedeEnvs \cup RepeatEnvs \cup DegradedEnvs \cup OtherEnvs
    \cup NullEnvs \cup DirectiveEnvs \cup UncacheEnvs \cup RoundTripEnvs
    \cup LockEnvs \cup MalformedEnvs \cup OptionEnvs \cup BothEnvs

Init ==
  /\ env \in Envs
  /\ call = [c \in Calls |-> IdleCall]
  /\ cache = EmptyMap
  /\ locks = EmptyMap
  /\ inflight = [p \in Procs |-> EmptyMap]
  /\ db = 0

Next ==
  \/ \E c \in Calls, p \in env.procs, s \in env.shapes :
        Start(c, p, s.model, s.op, s.args)
  \/ \E c \in Calls, ok \in Oks : FirstGet(c, ok)
  \/ \E c \in Calls, ok \in Oks : SecondGet(c, ok)
  \/ \E c \in Calls, ok \in Oks : Acquire(c, ok)
  \/ \E c \in Calls, ok \in Oks : LockedGet(c, ok)
  \/ \E c \in Calls, j \in Jitters, ok \in Oks : Poll(c, j, ok)
  \/ \E c \in Calls : WaitTimeout(c)
  \/ \E c \in Calls, ok \in QueryOks : Query(c, ok)
  \/ \E c \in Calls, ok \in Oks : Uncache(c, ok)
  \/ \E c \in Calls, ok \in Oks : \E k \in call[c].dels : DeleteOne(c, k, ok)
  \/ \E c \in Calls, ok \in Oks : Mdel(c, ok)
  \/ \E c \in Calls, ok \in Oks : Set(c, ok)
  \/ \E c \in Calls, ok \in Oks : Release(c, ok)
  \/ \E k \in DOMAIN cache : ExpireEntry(k)
  \/ \E k \in DOMAIN locks : ExpireLock(k)

Spec == Init /\ [][Next]_vars

(* ------------------------- a holder that crashed ----------------------- *)
\* the README's count read from two processes, lock in effect, no expiry;
\* the store calls succeed and a query may fail
CrashEnvs ==
  {Env(Undefined, TRUE, TRUE, "none", TRUE, FALSE, MaxCalls, Procs, {CountCached})}

\* the token of a holder outside the calls: no createLockToken(c) equals it
CrashedToken == 0

\* The lock record of the key is either absent or was left by a process that
\* took it (tryAcquireLock) and died before its query and its releaseLock.
LiveInit ==
  /\ env \in CrashEnvs
  /\ call = [c \in Calls |-> IdleCall]
  /\ cache = EmptyMap
  /\ locks \in {EmptyMap,
                [k \in {lockKeyOf(CountCached.args.cache.key)} |-> CrashedToken]}
  /\ inflight = [p \in Procs |-> EmptyMap]
  /\ db = 0

\* one settling of what call c awaits: a store call, a lock call, the sleep
\* before the deadline, the deadline, the query
CallStep(c) ==
  \/ \E ok \in Oks : FirstGet(c, ok)
  \/ \E ok \in Oks : SecondGet(c, ok)
  \/ \E ok \in Oks : Acquire(c, ok)
  \/ \E ok \in Oks : LockedGet(c, ok)
  \/ \E j \in Jitters, ok \in Oks : Poll(c, j, ok)
  \/ WaitTimeout(c)
  \/ \E ok \in QueryOks : Query(c, ok)
  \/ \E ok \in Oks : Set(c, ok)
  \/ \E ok \in Oks : Release(c, ok)

LiveNext ==
  \/ \E c \in Calls, p \in env.procs, s \in env.shapes :
        Start(c, p, s.model, s.op, s.args)
  \/ \E c \in Calls : CallStep(c)

\* the store, the lock connection, the query executor and the timers settle
Fairness == \A c \in Calls : WF_vars(CallStep(c))

LiveSpec == LiveInit /\ [][LiveNext]_vars /\ Fairness

(* ------------------------- what the claims speak of -------------------- *)
Started(c) == call[c].st # "idle"
IsDone(c) == call[c].st = "done"
Events(c, e) == {i \in DOMAIN call[c].log : call[c].log[i].e = e}
\* the query executor's invocations by call c
Queries(c) == Events(c, "query")
\* a lookup came back with a value (the redis client answers null, the
\* stores undefined, when there is none)
Present(v) == v # Undefined /\ (env.variant = "index.ts" => v # Null)
\* the lookups of call c that came back with a value
Hits(c) == {i \in Events(c, "get") : Present(call[c].log[i].v)}
\* call c runs the task it registered in the in-flight registry
RunsTask(c) == call[c].path = "read" /\ call[c].task = c /\ ~IsDone(c)
\* the calls whose first lookup missed while the task of call a was pending,
\* with a itself
Cohort(a) == {a} \cup {b \in Calls : call[b].found = a}
QueriesOf(S) == UNION {{<<c, i>> : i \in Queries(c)} : c \in S}

\* the read operations among the intercepted ones
ReadOps == CACHE_OPERATIONS \ WRITE_OPERATIONS
\* a cache directive with a static key: true, a number, a string, or an object
\* whose key is not a function
StaticDirective(cOpt) ==
  /\ cOpt # Undefined
  /\ cOpt # Bool(FALSE)
  /\ cOpt.t \in {"boolean", "number", "string", "object"}
  /\ cOpt.t = "object" => cOpt.key.t # "function"
\* a cache directive whose key is a function of the result
FactoryDirective(cOpt) == cOpt.t = "object" /\ cOpt.key.t = "function"
\* a read call with the directive cache: true
ReadTrue(c) ==
  Started(c) /\ call[c].op \in ReadOps /\ call[c].args.cache = Bool(TRUE)
\* calls with identical (model, arguments)
Same(a, c) == call[c].model = call[a].model /\ call[c].args = call[a].args
\* some call has asked the store to delete key k
Invalidated(k) ==
  \E d \in Calls : \E i \in Events(d, "delete") : k \in call[d].log[i].ks
\* the query of call c has failed
FailedQuery(c) == \E i \in Queries(c) : call[c].log[i].v = Undefined
\* what the query of call c came to, as an outcome
QueryOutcome(c) ==
  LET q == call[c].log[CHOOSE i \in Queries(c) : TRUE]
  IN IF q.v = Undefined THEN Err(c) ELSE Ok(q.v)
\* the first lookup of call c came back with a value
FirstLookupHit(c) ==
  /\ Len(call[c].log) >= 1
  /\ call[c].log[1].e = "get"
  /\ Present(call[c].log[1].v)
\* the value a call returns for the looked-up value v
Returned(v) == IF env.variant = "index.ts" THEN deserialize(v) ELSE v

\* the operations the documentation calls writes
DocumentedWrites == {"create", "createMany", "updateMany", "upsert", "update"}
\* the store keys the uncache directive of call c names
NamedKeys(c) == Range(toUncache(call[c].args.uncache, call[c].db))
\* the store keys call c has asked the store to delete before its ith step
DeletedBefore(c, i) ==
  UNION {call[c].log[j].ks : j \in {j \in Events(c, "delete") : j < i}}
\* the store key a static directive resolves to
ResolvedKey(c) ==
  StoreKey(resolveStaticCacheConfig(call[c].model, call[c].args.cache,
                                    queryArgsOf(call[c].args)).key)
\* call c has returned a row
Returns(c) == IsDone(c) /\ call[c].out.t = "ok"

(* ------------------------------- claims -------------------------------- *)
\* C1: single flight within one process. However many read calls for one key
\* miss while a task for that key is pending in their process, they all wait for
\* that task: a process never runs two tasks for one key at a time, the calls
\* that found the task pending never invoke the query executor, and once the
\* task's owner has returned with every lookup of the cohort a miss, the query
\* executor has been invoked exactly once by the whole cohort.
C1_SingleFlight ==
  /\ \A a, b \in Calls :
       a # b /\ RunsTask(a) /\ RunsTask(b) /\ call[a].proc = call[b].proc
         => call[a].key # call[b].key
  /\ \A a \in Calls :
       call[a].task = a =>
         /\ Cardinality(QueriesOf(Cohort(a))) <= 1
         /\ \A b \in Cohort(a) \ {a} : Queries(b) = {}
         /\ IsDone(a) /\ (\A b \in Cohort(a) : Hits(b) = {})
              => Cardinality(QueriesOf(Cohort(a))) = 1

\* C1 witness: three calls of one process missed together, all have returned,
\* and the query ran once
C1_Witness ==
  \E a \in Calls :
    /\ Cardinality(Cohort(a)) = 3
    /\ \A b \in Cohort(a) : IsDone(b) /\ Hits(b) = {}
    /\ Cardinality(QueriesOf(Cohort(a))) = 1

\* C2: a caller that found a task pending for its key ends when the task's
\* owner ends, and with the owner's outcome: the same value or the same failure.
C2_JoinersShareOutcome ==
  \A b \in Calls :
    call[b].found # 0 =>
      /\ IsDone(b) <=> IsDone(call[b].found)
      /\ call[b].out = call[call[b].found].out

\* C2 witness: a joined caller has ended with the failure of the owner's query
C2_Witness ==
  \E b \in Calls :
    /\ call[b].found # 0
    /\ IsDone(b)
    /\ call[b].out = Err(call[b].found)

\* C3: against a working store, once the first read call with cache: true for
\* some (model, arguments) has returned its query's result, every other call
\* with the same model and arguments, all of them made after that return and
\* with no deletion of the key asked for (an entry written with cache: true
\* carries no ttl), makes no query and returns the first call's result; the
\* query executor has run once for these arguments.
C3_RepeatedReadServedFromCache ==
  \A a \in Calls :
    ( /\ env.faults = "none"
      /\ ReadTrue(a) /\ IsDone(a) /\ Queries(a) # {} /\ call[a].out.t = "ok"
      /\ \A c \in Calls \ {a} : Started(c) /\ Same(a, c) => a \in call[c].after
      /\ ~Invalidated(StoreKey(call[a].key)) )
    => /\ call[a].out = QueryOutcome(a)
       /\ \A c \in Calls \ {a} :
            Started(c) /\ Same(a, c) =>
              /\ Queries(c) = {}
              /\ IsDone(c) => call[c].out = call[a].out
       /\ Cardinality(QueriesOf({c \in Calls : Started(c) /\ Same(a, c)})) = 1

\* C3 witness: a read with cache: true has run its query, an update has then
\* changed the row, and a later identical read has returned the first result
C3_Witness ==
  \E a, u, c \in Calls :
    /\ env.faults = "none"
    /\ ReadTrue(a) /\ Queries(a) # {} /\ ~Invalidated(StoreKey(call[a].key))
    /\ isWrite(call[u].op) /\ a \in call[u].after /\ call[u].out = Ok(Row(1))
    /\ c # a /\ Same(a, c) /\ u \in call[c].after
    /\ IsDone(c) /\ Queries(c) = {} /\ call[c].out = Ok(Row(0))

\* C4: a read call with a static-key directive whose first cache lookup comes
\* back with a value has returned that value then and there, having made no
\* other call: no query, no invalidation, no write, no lock.
C4_FirstHitReturns ==
  \A c \in Calls :
    Started(c) /\ call[c].op \in ReadOps /\ StaticDirective(call[c].args.cache)
      => /\ Len(call[c].log) >= 1 =>
              call[c].log[1] = Ev("get", {StoreKey(call[c].key)}, call[c].log[1].v)
         /\ ( /\ FirstLookupHit(c)
              \* (a stored null in part_001 and part_003 is the subject of C15)
              /\ env.variant \in {"part_001", "part_003"} => call[c].log[1].v # Null )
            => /\ IsDone(c)
               /\ call[c].out = Ok(Returned(call[c].log[1].v))
               /\ Len(call[c].log) = 1

\* C4 witness: a read with a string directive has returned, from its first
\* lookup, the row a write-through update had put under that key
C4_Witness ==
  \E c, w \in Calls :
    /\ call[c].op \in ReadOps /\ typeof(call[c].args.cache) = "string"
    /\ FirstLookupHit(c) /\ IsDone(c)
    /\ isWrite(call[w].op) /\ Events(w, "set") # {}
    /\ call[c].out = call[w].out

\* C5: a call whose query has failed writes nothing to the cache and deletes
\* nothing from it, ends with that very failure (a lock holder once its release
\* has settled), hands the same failure to the callers that joined its task,
\* and leaves no entry for its task in the in-flight registry.
C5_QueryFailurePropagates ==
  /\ \A c \in Calls :
       FailedQuery(c) =>
         /\ Events(c, "set") = {} /\ Events(c, "delete") = {}
         /\ IsDone(c) => call[c].out = Err(c)
         /\ ~IsDone(c) => call[c].st = "release" /\ call[c].res = Err(c)
         /\ \A b \in Calls : call[b].found = c /\ IsDone(c) => call[b].out = Err(c)
  /\ \A c \in Calls :
       IsDone(c) =>
         \A p \in Procs : \A k \in DOMAIN inflight[p] : inflight[p][k] # c

\* C5 witness: the query has failed for a lock holder and for a waiter that
\* fell through after its timeout, and both have ended with their failure
C5_Witness ==
  \E a, b \in Calls :
    /\ FailedQuery(a) /\ Events(a, "unlock") # {} /\ call[a].out = Err(a)
    /\ FailedQuery(b) /\ Events(b, "timeout") # {} /\ call[b].out = Err(b)


\* C6: no call ends with the failure of a store or lock call; a call that ran
\* the query ends with what its query came to; and when every store and lock
\* call fails, no lookup is a hit and every call ends with its own query's
\* outcome or, having joined a task, with that of the task.
C6_StoreFailuresInvisible ==
  \A c \in Calls :
    /\ call[c].out # StoreError /\ call[c].res # StoreError
    /\ IsDone(c) /\ Queries(c) # {} => call[c].out = QueryOutcome(c)
    /\ IsDone(c) /\ env.faults = "all" =>
         /\ Hits(c) = {}
         /\ call[c].found = 0 => Cardinality(Queries(c)) = 1
         /\ call[c].found # 0 => call[c].out = call[call[c].found].out
\* C7: a write operation makes no cache lookup, has invoked the query executor
\* by the time it returns, and when it returns a row every key its uncache
\* directive names has been deleted from the store (or the deletion has failed)
\* after the query, and no deletion is still under way.
C7_WriteInvalidatesBeforeReturn ==
  \A c \in Calls :
    Started(c) /\ call[c].op \in DocumentedWrites =>
      /\ Events(c, "get") = {}
      /\ IsDone(c) => Queries(c) # {}
      /\ Returns(c) =>
           /\ NamedKeys(c) \subseteq DeletedBefore(c, Len(call[c].log) + 1)
           /\ \A i \in Events(c, "delete") : \A q \in Queries(c) : q < i
           /\ call[c].dels = {} /\ call[c].bg = {}

\* C8: a create, createMany, updateMany, upsert or update with a static-key
\* directive that has returned a row has made no lookup, has run the query
\* first, then deleted the keys its uncache names, then written the row under
\* the resolved key.
C8_WriteThrough ==
  \A c \in Calls :
    ( /\ Returns(c)
      /\ call[c].op \in DocumentedWrites
      /\ StaticDirective(call[c].args.cache) )
    => /\ Events(c, "get") = {}
       /\ Queries(c) = {1}
       /\ \E j \in Events(c, "set") :
            /\ Events(c, "set") = {j}
            /\ call[c].log[j] = Ev("set", {ResolvedKey(c)}, call[c].out.v)
            /\ NamedKeys(c) \subseteq DeletedBefore(c, j)
            /\ \A i \in Events(c, "delete") : i < j

\* C9: a call whose cache directive has a function for its key and that has
\* returned a row has run the query first, then deleted the keys its uncache
\* names, then written the row once, under the key the function makes of the
\* row; it has made no lookup, has registered no task and joined none, and has
\* not tried the lock.
C9_ResultDerivedKey ==
  \A c \in Calls :
    Started(c) /\ FactoryDirective(call[c].args.cache) =>
      /\ Events(c, "get") = {} /\ Events(c, "lock") = {}
      /\ call[c].task = 0 /\ call[c].found = 0
      /\ \A p \in Procs : \A k \in DOMAIN inflight[p] : inflight[p][k] # c
      /\ Returns(c) =>
           /\ Queries(c) = {1}
           /\ \E j \in Events(c, "set") :
                /\ Events(c, "set") = {j}
                /\ call[c].log[j] =
                     Ev("set", {StoreKey(Apply(call[c].args.cache.key.v, call[c].out.v))},
                        call[c].out.v)
                /\ NamedKeys(c) \subseteq DeletedBefore(c, j)
                /\ \A i \in Events(c, "delete") : i < j

\* C10: with a working store, when a read has cached its row under an
\* explicit key, a write whose uncache names that key has then returned, and
\* the same read is made again after that, the read misses and runs the query.
C10_UncacheForcesRequery ==
  \A a, w, c \in Calls :
    ( /\ env.faults = "none"
      /\ call[a].op \in ReadOps /\ call[a].args.cache.t = "object"
      /\ isString(call[a].args.cache.key)
      /\ Returns(a) /\ Events(a, "set") # {}
      /\ call[w].op \in DocumentedWrites
      /\ call[w].args.uncache = call[a].args.cache.key
      /\ a \in call[w].after /\ Returns(w)
      /\ c # a /\ Same(a, c) /\ w \in call[c].after /\ IsDone(c) )
    => Hits(c) = {} /\ Queries(c) # {}

C12_DisabledDirective ==
  \A c \in Calls :
    ( /\ Started(c)
      /\ call[c].op \in CACHE_OPERATIONS
      /\ call[c].args.cache \in {Undefined, Bool(FALSE)} )
    => /\ Events(c, "get") = {} /\ Events(c, "set") = {}
       /\ call[c].st # "set"
       /\ Returns(c) =>
            /\ Queries(c) = {1}
            /\ call[c].out = QueryOutcome(c)
            /\ NamedKeys(c) \subseteq
                 DeletedBefore(c, Len(call[c].log) + 1) \cup call[c].dels \cup call[c].bg


\* C13: when the lock record of a key was left by a holder that never
\* releases it and never fills the cache, every call waiting on the key,
\* the waiter and the calls joined to its task, completes, and a waiter
\* whose deadline passed completes by having run the query itself.
C13_WaitersComplete ==
  /\ \A c \in Calls : (call[c].st \in {"wait", "joined"}) ~> IsDone(c)
  /\ [](\A c \in Calls :
          IsDone(c) /\ Events(c, "timeout") # {}
            => /\ Queries(c) # {}
               /\ call[c].out = QueryOutcome(c))
C13_Witness ==
  \E c, j \in Calls :
    /\ \E k \in DOMAIN locks : locks[k] = CrashedToken
    /\ IsDone(c) /\ Events(c, "timeout") # {} /\ call[c].out = QueryOutcome(c)
    /\ call[j].task = c /\ j # c /\ IsDone(j) /\ call[j].out = call[c].out


\* the lock is in effect: enabled in the options, and the store has a
\* connection with set and eval
LockInEffect == env.variant = "part_000" /\ lockOptions.enabled /\ env.redis
\* the only two calls, reads of one key in two processes, each started before
\* the other returned, have both missed at their first lookup
ConcurrentMisses(a, b) ==
  /\ a # b
  /\ \A c \in Calls \ {a, b} : ~Started(c)
  /\ call[a].path = "read" /\ call[b].path = "read"
  /\ call[a].key = call[b].key
  /\ call[a].proc # call[b].proc
  /\ a \notin call[b].after /\ b \notin call[a].after
  /\ Events(a, "get") # {} /\ ~FirstLookupHit(a)
  /\ Events(b, "get") # {} /\ ~FirstLookupHit(b)

\* C14: with the lock in effect, no expiry, no failure and no deadline
\* passed, two reads in different processes that concurrently miss one
\* uncached key run the query once between them: the one that took the lock
\* queries and fills the cache, and the other returns the value it wrote.
C14_LockedStampede ==
  \A a, b \in Calls :
    ( /\ LockInEffect /\ env.faults = "none" /\ ~env.expiry
      /\ ConcurrentMisses(a, b)
      /\ call[a].acquired
      /\ Returns(a) /\ Returns(b)
      /\ Events(a, "timeout") = {} /\ Events(b, "timeout") = {} )
    => /\ Cardinality(QueriesOf({a, b})) = 1
       /\ call[b].out = call[a].out


\* C15: a lookup of a read that comes back with anything but undefined, a
\* stored null included, is a hit: the call invokes no query after it, looks
\* up and writes nothing more, and returns the value that came back.
C15_NullIsAHit ==
  \A c \in Calls :
    env.variant # "index.ts" /\ call[c].path = "read" =>
      \A i \in Events(c, "get") :
        call[c].log[i].v # Undefined =>
          /\ \A j \in DOMAIN call[c].log :
               j > i => call[c].log[j].e \notin {"get", "query", "set", "timeout"}
          /\ IsDone(c) => call[c].out = Ok(call[c].log[i].v)


\* a field of a directive object that is there: neither undefined nor null
Given(x) == x \notin {Undefined, Null}
\* model + "@" + hash(queryArguments) for call c
DerivedKey(c) ==
  Str(call[c].model \o "@" \o ToString(hash([where |-> call[c].args.where])))

\* C16: the key and ttl a static cache directive resolves to. true: the
\* derived key model@hash(arguments), no ttl; a number n: the derived key,
\* ttl n; a string s: key s, no ttl; an object whose key is no function: its
\* key, or the derived key when it has none, prefixed by namespace + ":"
\* when it has a (non-empty) namespace, and its ttl or none; any other
\* shape: the derived key, no ttl. No shape makes the call fail.
C16_StaticDirective ==
  \A c \in Calls :
    ( /\ env.variant = "part_000"
      /\ call[c].path \in {"read", "write"} )
    => LET cOpt == call[c].args.cache
           base == IF Given(cOpt.key) THEN cOpt.key ELSE DerivedKey(c)
       IN /\ cOpt = Bool(TRUE)
               => call[c].key = DerivedKey(c) /\ call[c].ttl = Undefined
          /\ cOpt.t = "number"
               => call[c].key = DerivedKey(c) /\ call[c].ttl = cOpt
          /\ cOpt.t = "string"
               => call[c].key = cOpt /\ call[c].ttl = Undefined
          /\ cOpt.t = "object"
               => /\ call[c].key =
                       IF Given(cOpt.namespace) /\ cOpt.namespace # Str("")
                         THEN Str(ToStr(cOpt.namespace) \o ":" \o ToStr(base))
                         ELSE base
                  /\ call[c].ttl = IF Given(cOpt.ttl) THEN cOpt.ttl ELSE Undefined
          /\ cOpt.t \in {"null", "array", "function"}
               => call[c].key = DerivedKey(c) /\ call[c].ttl = Undefined
          /\ call[c].out.t # "error" \/ Len(call[c].log) > 0
C16_Witness ==
  \E c \in Calls :
    /\ env.variant = "part_000" /\ call[c].path = "read" /\ Returns(c)
    /\ call[c].args.cache = Obj(Undefined, Str("n"), Num(0))
    /\ call[c].key = Str("n:user@1526") /\ call[c].ttl = Num(0)
    /\ Events(c, "set") # {}


\* an entry of an uncache list as a key: a string as it is, an object with a
\* key as namespace + ":" + key, or the key alone when it has no namespace
EntryAsKey(x) ==
  IF x.t = "string" THEN x
  ELSE IF x.t = "object" /\ Given(x.key)
    THEN (IF Given(x.namespace) /\ x.namespace # Str("")
            THEN Str(ToStr(x.namespace) \o ":" \o ToStr(x.key)) ELSE x.key)
  ELSE Undefined
NonEmptyString(x) == x.t = "string" /\ x.v # ""
\* the ordered key list of an uncache directive, given the query result
ExpectedKeys(opt, res) ==
  LET values == IF opt.t = "function" THEN Apply(opt.v, res) ELSE opt
      list == IF ~Truthy(opt) THEN <<>>
              ELSE IF values.t = "array" THEN values.v ELSE <<values>>
  IN SelectSeq([i \in 1..Len(list) |-> EntryAsKey(list[i])], NonEmptyString)
\* the directive of call c is one of those the resolver is described for
Resolvable(opt) == ~Truthy(opt) \/ opt.t \in {"string", "function", "array"}

\* C17: the uncache resolver. Once the query of a call has returned, the keys
\* the call asks the store to delete are those of its uncache directive, in
\* order: none for an absent or falsy one, the string itself, the function's
\* return value for the result (a scalar as a one-element list), the array's
\* strings as they are and its {key, namespace} entries as namespace:key or
\* key, with every entry dropped that is no string or is empty; and for an
\* empty list the store is asked to delete nothing.
C17_UncacheResolver ==
  \A c \in Calls :
    ( /\ call[c].path = "plain" /\ Returns(c)
      /\ Resolvable(call[c].args.uncache)
      /\ env.variant \in {"part_000", "index.ts"} )
    => LET exp == ExpectedKeys(call[c].args.uncache, call[c].db)
           dels == Events(c, "delete")
           asked == UNION {call[c].log[i].ks : i \in dels} \cup call[c].dels
       IN /\ exp = <<>> => dels = {} /\ call[c].dels = {}
          /\ exp # <<>> =>
               /\ asked = {x.v : x \in Range(exp)}
               /\ env.deleteMany =>
                    dels # {} /\ \A i \in dels : call[c].log[i].v = Arr(exp)


\* the store key the key function of call c makes from the result v
FactoryKey(c, v) == StoreKey(Apply(call[c].args.cache.key.v, v))

\* C18: round trip. When a call whose cache key is a function returns a
\* result and no store call fails, the store holds, at that moment, under
\* the key the function makes from the returned result, a value equal to
\* that result; also when the call's own uncache directive names that key.
C18_RoundTrip ==
  [][\A c \in Calls :
       ( /\ env.variant = "part_000" /\ env.faults = "none"
         /\ call[c].path = "factory"
         /\ call[c].st # "done" /\ call'[c].st = "done"
         /\ call'[c].out.t = "ok" )
       => /\ FactoryKey(c, call'[c].out.v) \in DOMAIN cache'
          /\ cache'[FactoryKey(c, call'[c].out.v)].v = call'[c].out.v]_vars
C18_Witness ==
  \E c \in Calls :
    /\ env.variant = "part_000" /\ env.faults = "none"
    /\ call[c].path = "factory" /\ Returns(c)
    /\ \E i \in Events(c, "delete"), j \in Events(c, "set") :
         /\ i < j
         /\ FactoryKey(c, call[c].out.v) \in call[c].log[i].ks
         /\ call[c].log[j].ks = {FactoryKey(c, call[c].out.v)}
    /\ FactoryKey(c, call[c].out.v) \in DOMAIN cache
    /\ cache[FactoryKey(c, call[c].out.v)].v = call[c].out.v


\* the configuration says lock: false or lock.enabled: false, or the store
\* has no connection with set and eval
LockSwitchedOff ==
  \/ env.lock = Bool(FALSE)
  \/ env.lock.t = "object" /\ env.lock.enabled = Bool(FALSE)
  \/ ~env.redis

\* C19: when the lock is not in effect (lock: false, lock.enabled false, or
\* a store without a connection that has set and eval), no call ever calls
\* a lock primitive or waits for a holder, and a read whose recheck inside
\* the in-flight task missed goes straight on to the query and, when the
\* query returned, to the deletes its uncache asks for and the write of the
\* result.
C19_NoLockNoPrimitive ==
  \A c \in Calls :
    ( /\ env.variant = "part_000"
      /\ LockSwitchedOff )
    => /\ locks = EmptyMap
       /\ Events(c, "lock") = {} /\ Events(c, "unlock") = {}
       /\ Events(c, "timeout") = {}
       /\ call[c].st \notin {"acquire", "get3", "wait", "release"}
       /\ call[c].rel = "no" /\ ~call[c].acquired
       /\ ( /\ call[c].path = "read" /\ call[c].task = c
            /\ Len(call[c].log) >= 2 /\ call[c].log[2].v = Undefined )
          => /\ call[c].st \in {"query", "uncache", "set", "done"}
             /\ Len(call[c].log) >= 3 => call[c].log[3].e = "query"
             /\ Len(call[c].log) >= 4 /\ call[c].log[3].v # Undefined
                  => call[c].log[4].e = IF NamedKeys(c) = {} THEN "set" ELSE "delete"
             /\ Returns(c) => Events(c, "set") # {}
C19_Witness ==
  \E c \in Calls :
    /\ env.variant = "part_000" /\ env.redis
    /\ env.lock.t = "object" /\ env.lock.enabled = Bool(FALSE)
    /\ call[c].path = "read" /\ Returns(c)
    /\ Len(call[c].log) = 4
    /\ call[c].log[2].e = "get" /\ call[c].log[2].v = Undefined
    /\ call[c].log[3].e = "query" /\ call[c].log[4].e = "set"


\* the query of the holder c, or the deletion or the write after it, is under way
HolderExecuting(c) ==
  call[c].acquired /\ call[c].st \in {"query", "uncache", "set"}

\* C20: the holder keeps the lock while it works. With the lock in effect
\* and no expiry, the lock record of the key is present, with the holder's
\* token, for as long as the holder's query is executing and until the
\* result is written; the holder calls releaseLock only after that.
C20_LockHeldDuringQuery ==
  \A c \in Calls :
    ( /\ LockInEffect /\ ~env.expiry
      /\ HolderExecuting(c) )
    => /\ lockKeyOf(call[c].key) \in DOMAIN locks
       /\ locks[lockKeyOf(call[c].key)] = createLockToken(c)
       /\ Events(c, "unlock") = {}


\* the release attempts of call c
Releases(c) == Events(c, "unlock")
\* call c has attempted exactly one release, after its acquisition, for the
\* lock key and with the token of the acquisition
ReleasedOnce(c) ==
  /\ Cardinality(Releases(c)) = 1
  /\ \A i \in Releases(c) :
       /\ call[c].log[i].ks = {lockKeyOf(call[c].key)}
       /\ call[c].log[i].v.v[1] = Num(createLockToken(c))
       /\ \E j \in Events(c, "lock") :
            j < i /\ call[c].log[j].v = Bool(TRUE) /\ call[c].log[j].ks = call[c].log[i].ks

\* C21: every acquisition is followed by exactly one release attempt for the
\* same lock key and token, whichever way the holder leaves: a hit in the
\* locked lookup, the query returning, the query failing. A call that never
\* acquired attempts none, a holder has attempted its release before it
\* returns, and its lock record is gone by then.
C21_AcquireThenRelease ==
  /\ \A c \in Calls : call[c].acquired ~> ReleasedOnce(c)
  /\ [](\A c \in Calls :
          /\ Cardinality(Releases(c)) <= 1
          /\ ~call[c].acquired => Releases(c) = {}
          /\ call[c].acquired /\ IsDone(c) =>
               /\ ReleasedOnce(c)
               /\ \A k \in DOMAIN locks : locks[k] # createLockToken(c))
C21_Witness ==
  \E a, b, c \in Calls :
    /\ IsDone(a) /\ call[a].acquired /\ FailedQuery(a) /\ ReleasedOnce(a)
    /\ IsDone(b) /\ call[b].acquired /\ Queries(b) = {} /\ ReleasedOnce(b)
    /\ IsDone(c) /\ call[c].acquired /\ Returns(c) /\ Queries(c) # {} /\ ReleasedOnce(c)


\* C22: a release removes the lock record only when the record's value is
\* the releasing call's token. In the step in which a release of call c
\* settles, every lock record with another token stays as it is; so a
\* holder whose lock expired and was taken again by another process leaves
\* that process's record in place.
C22_ReleaseOnlyOwnToken ==
  [][\A c \in Calls :
       call[c].rel = "pending" /\ call'[c].rel = "done"
         => \A k \in DOMAIN locks :
              locks[k] # createLockToken(c)
                => k \in DOMAIN locks' /\ locks'[k] = locks[k]]_vars
C22_Witness ==
  \E a, b \in Calls :
    /\ a # b /\ call[a].proc # call[b].proc
    /\ call[a].acquired /\ call[b].acquired
    /\ \E i \in Releases(a) :
         /\ call[a].log[i].ks = {lockKeyOf(call[b].key)}
         /\ call[a].log[i].v.v[2] = Num(createLockToken(b))
    /\ Releases(b) = {}
    /\ lockKeyOf(call[b].key) \in DOMAIN locks
    /\ locks[lockKeyOf(call[b].key)] = createLockToken(b)


\* call c is in Holder state: its conditional set succeeded and its release
\* has not settled
Holder(c) == call[c].acquired /\ call[c].rel # "done"

\* C23: without expiry, at most one call at a time is in Holder state for a
\* key, and the lock record carries its token; a conditional set succeeds
\* only when there is no record for the lock key, and no step changes the
\* token of a record that stays.
C23_OneHolder ==
  /\ [](~env.expiry =>
          \A a, b \in Calls :
            Holder(a) /\ Holder(b) /\ call[a].key = call[b].key => a = b)
  /\ [](~env.expiry /\ env.faults = "none" =>
          \A a \in Calls :
            Holder(a) => /\ lockKeyOf(call[a].key) \in DOMAIN locks
                         /\ locks[lockKeyOf(call[a].key)] = createLockToken(a))
  /\ [][/\ \A k \in DOMAIN locks :
             k \in DOMAIN locks' => locks'[k] = locks[k]
        /\ \A c \in Calls :
             ~call[c].acquired /\ call'[c].acquired
               => /\ lockKeyOf(call[c].key) \notin DOMAIN locks
                  /\ locks'[lockKeyOf(call[c].key)] = createLockToken(c)]_vars
C23_Witness ==
  \E a, b \in Calls :
    /\ ~env.expiry /\ env.faults = "none"
    /\ Holder(a) /\ Releases(a) = {}
    /\ locks[lockKeyOf(call[a].key)] = createLockToken(a)
    /\ call[b].proc # call[a].proc /\ call[b].key = call[a].key
    /\ call[b].st = "wait" /\ ~call[b].acquired
    /\ \E i \in Events(b, "lock") : call[b].log[i].v = Bool(FALSE)
    /\ \A c \in Calls \ {a} : ~call[c].acquired


\* the lock attempts of call c that did not acquire
FailedLocks(c) == {i \in Events(c, "lock") : call[c].log[i].v = Bool(FALSE)}

\* C24: a call whose lock attempt did not acquire polls the cache, sleeping
\* retryDelay plus a jitter in [0, retryJitter] before each lookup, and
\* returns the first value a lookup comes back with; it invokes the query
\* only after the deadline has passed with every poll a miss, the query
\* follows the timeout directly, its result is written, and the call makes
\* no further lock attempt and no release.
C24_WaiterPollsThenQueries ==
  \A c \in Calls : \A i \in FailedLocks(c) :
    LET log == call[c].log
        later == {j \in DOMAIN log : j > i}
    IN /\ \A j \in later : log[j].e \notin {"lock", "unlock"}
       /\ Len(log) = i => call[c].st = "wait"
       \* each lookup comes after a sleep of retryDelay + jitter
       /\ \A j \in later :
            log[j].e = "get" =>
              /\ log[j - 1].e = "sleep"
              /\ log[j - 1].v.v >= lockOptions.retryDelay
              /\ log[j - 1].v.v <= lockOptions.retryDelay + lockOptions.retryJitter
       /\ \A j \in later : log[j].e = "sleep" => j < Len(log) /\ log[j + 1].e = "get"
       \* the first value seen is returned
       /\ \A j \in later :
            log[j].e = "get" /\ log[j].v # Undefined
              => /\ j = Len(log)
                 /\ IsDone(c) /\ call[c].out = Ok(log[j].v)
       \* the query comes only after the deadline, and directly after it
       /\ \A j \in later :
            log[j].e = "query"
              => /\ log[j - 1].e = "timeout"
                 /\ lockOptions.waitTimeout > 0
                      => \E k \in later : k < j /\ log[k].e = "get"
                 /\ \A k \in later : k < j /\ log[k].e = "get" => log[k].v = Undefined
       /\ \A j \in later :
            log[j].e = "timeout"
              => /\ call[c].st \in {"query", "uncache", "set", "done"}
                 /\ Len(log) > j => log[j + 1].e = "query"
       /\ Returns(c) /\ Queries(c) # {} => Events(c, "set") # {}
C24_Witness ==
  \E c \in Calls : \E i \in FailedLocks(c) :
    /\ Len(call[c].log) = i + 2
    /\ call[c].log[i + 1].e = "sleep"
    /\ call[c].log[i + 1].v = Num(lockOptions.retryDelay + lockOptions.retryJitter)
    /\ call[c].log[i + 2].e = "get" /\ call[c].log[i + 2].v = Row(0)
    /\ Returns(c) /\ call[c].out = Ok(Row(0)) /\ Queries(c) = {}


\* the release attempts of call c whose scripted delete threw
ThrownReleases(c) == {i \in Releases(c) : call[c].log[i].v.v[2] = Undefined}
\* what the try block of the holder c came to: the value of the locked
\* lookup, or the outcome of the query
HolderOutcome(c) ==
  IF Queries(c) # {} THEN QueryOutcome(c)
  ELSE Ok(call[c].log[CHOOSE i \in Events(c, "get") :
                        \A j \in Events(c, "get") : j <= i].v)

\* C25: a failing lock primitive never reaches the caller. No call ends
\* with the error of a store or lock call; a lock attempt that did not come
\* back with OK, because the set threw (every one does when every store
\* call fails) or because there is a record, puts the call on the waiter
\* path; and a holder whose scripted delete threw returns what its try
\* block came to, the value or the query's failure, unchanged.
C25_LockFailuresRecovered ==
  \A c \in Calls :
    env.variant = "part_000" =>
      /\ call[c].out \notin {StoreError, TypeError}
      /\ call[c].res \notin {StoreError, TypeError}
      /\ \A i \in Events(c, "lock") :
           /\ env.faults = "all" => call[c].log[i].v = Bool(FALSE)
           /\ call[c].log[i].v = Bool(FALSE) =>
                /\ ~call[c].acquired
                /\ Len(call[c].log) = i => call[c].st = "wait"
                /\ Len(call[c].log) > i =>
                     call[c].log[i + 1].e =
                       IF lockOptions.waitTimeout > 0 THEN "sleep" ELSE "timeout"
      /\ IsDone(c) /\ ThrownReleases(c) # {} => call[c].out = HolderOutcome(c)
C25_Witness ==
  \E c \in Calls :
    /\ env.variant = "part_000"
    /\ call[c].acquired /\ IsDone(c) /\ ThrownReleases(c) # {}
    /\ FailedQuery(c) /\ call[c].out = Err(c)
    /\ lockKeyOf(call[c].key) \in DOMAIN locks


\* call c is a read in progress
ReadInProgress(c) == call[c].path = "read" /\ Started(c) /\ ~IsDone(c)
\* call c has registered a task that has not settled
TaskPending(c) == RunsTask(c) /\ call[c].st # "get1"

\* C26: the in-flight registry. An entry for a key is there exactly while
\* the task of a read that missed on that key is pending in that process:
\* its owner is a read of that process and key whose first lookup missed and
\* which has not returned; every pending task is the entry of its key, so no
\* key has two; no call that has returned, on success or failure, and no
\* call that was joined to it, is still in the registry; and the registry
\* is empty whenever no read is in progress.
C26_InflightRegistry ==
  /\ \A p \in Procs : \A k \in DOMAIN inflight[p] :
       LET c == inflight[p][k]
       IN /\ c \in Calls
          /\ call[c].proc = p /\ call[c].key = k
          /\ TaskPending(c)
          /\ call[c].log[1].e = "get" /\ call[c].log[1].v = Undefined
  /\ \A c \in Calls :
       TaskPending(c) =>
         /\ call[c].key \in DOMAIN inflight[call[c].proc]
         /\ inflight[call[c].proc][call[c].key] = c
  /\ \A c \in Calls :
       call[c].st = "joined" => TaskPending(call[c].task)
  /\ \A c \in Calls :
       IsDone(c) => \A p \in Procs : \A k \in DOMAIN inflight[p] :
                      inflight[p][k] # c
  /\ (\A c \in Calls : ~ReadInProgress(c)) => \A p \in Procs : inflight[p] = EmptyMap
C26_Witness ==
  \E a, j \in Calls :
    /\ a # j /\ call[a].task = a /\ call[j].task = a
    /\ IsDone(a) /\ IsDone(j) /\ FailedQuery(a)
    /\ call[j].out = call[a].out /\ call[a].out = Err(a)
    /\ \A p \in Procs : inflight[p] = EmptyMap
    /\ \A c \in Calls : ~ReadInProgress(c)


\* C27: inside the single-flight task the key is looked up again before any
\* lock attempt, and once more after a successful one. A value found by the
\* second lookup is returned with no lock attempt and no query; a value
\* found by the lookup under the lock is returned with no query, the release
\* being the only call that follows.
C27_RechecksInsideTask ==
  \A c \in Calls :
    env.variant = "part_000" /\ call[c].path = "read" /\ call[c].task = c =>
      LET log == call[c].log
      IN /\ Len(log) >= 2 => log[2].e = "get"
         /\ \A i \in Events(c, "lock") :
              i = 3 /\ log[2].e = "get" /\ log[2].v = Undefined
         /\ Len(log) >= 2 /\ log[2].v # Undefined =>
              /\ Len(log) = 2
              /\ IsDone(c) /\ call[c].out = Ok(log[2].v)
         /\ Len(log) >= 3 /\ log[3].e = "lock" /\ log[3].v = Bool(TRUE) =>
              /\ Len(log) = 3 => call[c].st = "get3"
              /\ Len(log) >= 4 => log[4].e = "get"
              /\ Len(log) >= 4 /\ log[4].v # Undefined =>
                   /\ Queries(c) = {}
                   /\ \A j \in DOMAIN log : j > 4 => log[j].e = "unlock"
                   /\ Len(log) <= 5
                   /\ IsDone(c) => call[c].out = Ok(log[4].v)
C27_Witness ==
  \E a, b \in Calls :
    /\ env.variant = "part_000"
    /\ call[b].task = b /\ Returns(b) /\ Len(call[b].log) = 5
    /\ call[b].log[3].v = Bool(TRUE) /\ call[b].log[4].e = "get"
    /\ call[b].out = Ok(call[b].log[4].v) /\ call[b].log[5].e = "unlock"
    /\ Queries(b) = {}
    \* the value is the one another call's query produced
    /\ a # b /\ Queries(a) # {} /\ call[b].out = QueryOutcome(a)


\* a key of a directive object that is there but is no string and no
\* function, or is the empty string
MalformedKey(k) == Given(k) /\ (k.t \notin {"string", "function"} \/ k = Str(""))
\* the derived key of call c, as the extension in use derives it
FallbackKey(c) ==
  IF env.variant = "index.ts"
    THEN Str(generateComposedKey(call[c].model, [where |-> call[c].args.where]))
    ELSE DerivedKey(c)

\* C28: a directive object with a malformed key is no error and falls back
\* to the derived key: the call goes on with model@hash(arguments) as its
\* store key, and the malformed value is never the store key.
C28_MalformedKeyFallsBack ==
  \A c \in Calls :
    ( /\ env.variant \in {"part_000", "index.ts"}
      /\ call[c].path \in {"read", "write"}
      /\ call[c].args.cache.t = "object"
      /\ MalformedKey(call[c].args.cache.key) )
    => /\ call[c].key = FallbackKey(c)
       /\ StoreKey(call[c].key) # ToStr(call[c].args.cache.key)
       /\ \A i \in DOMAIN call[c].log :
            ToStr(call[c].args.cache.key) \notin call[c].log[i].ks


\* the value a lock option keeps its default for: no number, not finite, or
\* not positive
KeepsDefault(x) == typeof(x) # "number" \/ ~PositiveFinite(x)

NumericOptions == {"ttl", "waitTimeout", "retryDelay", "retryJitter"}

\* C29: the effective lock options are a function of the configuration given
\* at construction: without one they are the defaults, lock: false gives the
\* defaults with enabled = false, and an object overrides the defaults field
\* by field, a numeric field that is missing, not finite or not positive and
\* a blank prefix keeping the default; ttl, waitTimeout, retryDelay and
\* retryJitter are positive integers in every case.
C29_LockOptionsResolved ==
  env.variant = "part_000" =>
    LET l == env.lock
        D == DEFAULT_LOCK_OPTIONS
    IN /\ l = Undefined => lockOptions = D
       /\ l = Bool(FALSE) => lockOptions = [D EXCEPT !.enabled = FALSE]
       /\ l.t = "object" =>
            /\ \A f \in NumericOptions :
                 lockOptions[f] = IF KeepsDefault(l[f]) THEN D[f] ELSE floor(l[f])
            /\ lockOptions.prefix =
                 IF l.prefix.t = "string" /\ l.prefix.v \notin {"", " ", "  "}
                   THEN l.prefix.v ELSE D.prefix
            /\ l.enabled = Undefined => lockOptions.enabled = D.enabled
            /\ l.enabled.t = "boolean" => lockOptions.enabled = l.enabled.v
       /\ \A f \in NumericOptions : lockOptions[f] \in Nat \ {0}

\* the version of the row the query of write call w has written
WrittenVersion(w) == call[w].log[CHOOSE i \in Queries(w) : TRUE].v.v

\* C30: an invalidation of key K is not undone by a read for K that was in
\* flight. Once a write call whose uncache names K has returned, with no store
\* call failing, K holds no value produced by a query that executed before the
\* write's query: an entry under K is a row at least as new as the one the
\* write has written.
C30_InvalidationNotUndone ==
  \A w \in Calls :
    ( /\ env.variant = "part_000"
      /\ env.faults = "none"
      /\ Returns(w)
      /\ Mutates(call[w].op)
      /\ Events(w, "delete") # {} )
    => \A k \in NamedKeys(w) :
         k \in DOMAIN cache /\ cache[k].v.t = "row"
           => cache[k].v.v >= WrittenVersion(w)

\* the deletes of call c that are under way or were asked for
Deleting(c) ==
  call[c].st = "uncache" \/ call[c].dels # {} \/ call[c].bg # {}
    \/ Events(c, "delete") # {}

\* C31: the uncache directive of a read is applied only when the call itself
\* executes the query. A read with a static cache directive that has not
\* invoked the query executor (it was served by its first, second or locked
\* lookup or by a poll, or it returned another caller's task) has asked for
\* no delete and has none under way; every delete event of a read comes
\* after its own query event.
C31_UncacheOnlyWithOwnQuery ==
  \A c \in Calls :
    env.variant = "part_000" /\ call[c].path = "read" =>
      /\ Queries(c) = {} => ~Deleting(c)
      /\ \A i \in Events(c, "delete") : \E q \in Queries(c) : q < i
      /\ Returns(c) /\ Queries(c) # {} /\ env.faults = "none" =>
           NamedKeys(c) \subseteq DeletedBefore(c, Len(call[c].log) + 1)
C31_Witness ==
  \E c \in Calls :
    /\ env.variant = "part_000"
    /\ call[c].path = "read" /\ NamedKeys(c) # {}
    /\ Returns(c) /\ Hits(c) # {} /\ Queries(c) = {}
    /\ ~Deleting(c)
    /\ \E d \in Calls : Events(d, "delete") # {}

\* C32: the in-flight registry is keyed by the resolved cache key only. Of two
\* reads in one process that resolve to the same key but differ in model or
\* query arguments, never both run a task at a time; the one whose first
\* lookup missed while the other's task was pending never invokes the query
\* executor and returns with the outcome of the other.
C32_RegistryKeyedByKeyOnly ==
  \A a, b \in Calls :
    ( /\ env.variant = "part_000"
      /\ a # b
      /\ call[a].path = "read" /\ call[b].path = "read"
      /\ call[a].proc = call[b].proc
      /\ StoreKey(call[a].key) = StoreKey(call[b].key)
      /\ ~Same(a, b) )
    => /\ ~(TaskPending(a) /\ TaskPending(b))
       /\ call[b].found = a =>
            /\ Queries(b) = {}
            /\ IsDone(b) => IsDone(a) /\ call[b].out = call[a].out
C32_Witness ==
  \E a, b \in Calls :
    /\ env.variant = "part_000"
    /\ call[a].model # call[b].model
    /\ call[a].args.where # call[b].args.where
    /\ call[b].found = a /\ IsDone(b)
    /\ Queries(a) # {} /\ Queries(b) = {}
    /\ ~Matches(call[b].args)
    /\ call[b].out = Ok(Row(0))

\* call c has just come back from its store set
SetSettles(c) ==
  /\ Len(call'[c].log) = Len(call[c].log) + 1
  /\ call'[c].log[Len(call'[c].log)].e = "set"

C34_DeleteIsAWrite ==
  \A c \in Calls :
    ( /\ env.variant \in {"part_000", "index.ts"}
      /\ Started(c)
      /\ call[c].op = "delete"
      /\ StaticDirective(call[c].args.cache) )
    => /\ Events(c, "get") = {}
       /\ call[c].st # "get1"
       /\ call[c].qargs # Undefined
       /\ IsDone(c) => Queries(c) # {} /\ call[c].out = QueryOutcome(c)

\* call c has a static cache directive that names no key
KeyDerived(c) ==
  /\ StaticDirective(call[c].args.cache)
  /\ call[c].args.cache.t \in {"boolean", "number"}

\* C35: for every cacheable operation the query executor receives the call's
\* arguments without the cache and uncache fields and otherwise unchanged,
\* and the derived key is model@hash of those stripped arguments: two calls
\* of one model that differ only in their cache or uncache directive, neither
\* naming a key, go on with the same key.
C35_StrippedArguments ==
  \A c \in Calls :
    env.variant = "part_000" /\ call[c].op \in CACHE_OPERATIONS =>
      /\ call[c].qargs # Undefined =>
           /\ DOMAIN call[c].qargs \cap {"cache", "uncache"} = {}
           /\ call[c].qargs.where = call[c].args.where
      /\ call[c].path \in {"read", "write"} /\ KeyDerived(c) =>
           /\ call[c].key = DerivedKey(c)
           /\ \A d \in Calls :
                ( /\ call[d].path \in {"read", "write"} /\ KeyDerived(d)
                  /\ call[d].model = call[c].model
                  /\ call[d].args.where = call[c].args.where )
                => call[d].key = call[c].key
C35_Witness ==
  \E c, d \in Calls :
    /\ env.variant = "part_000"
    /\ call[c].op = call[d].op /\ call[c].model = call[d].model
    /\ call[c].args.where = call[d].args.where
    /\ call[c].args.cache = Bool(TRUE) /\ call[d].args.cache = Num(5000)
    /\ call[c].key = call[d].key
    /\ Queries(c) # {} /\ call[c].qargs = [where |-> call[c].args.where]
    /\ Returns(d) /\ Hits(d) # {}

=============================================================================
